---- MODULE Spec2Model ----
(***************************************************************************)
(* Model of the garmin-lap-analyzer content script (src/content.js):       *)
(* the lap/record reconciler computeLapStats and the lap-selection UI      *)
(* (displayLaps / updateStats).                                            *)
(*                                                                         *)
(* Representation of JavaScript values                                     *)
(*   - an optional number (a field that may be undefined / null) is the    *)
(*     empty tuple None or the one-element tuple Some(v);                  *)
(*   - distances are integers in units of 1/DistUnitsPerMeter metre;       *)
(*   - times are integers in ticks of 1/TicksPerSecond second;             *)
(*   - heart rates are integers (beats per minute);                        *)
(*   - a reference to a record object is its 1-based index in the input    *)
(*     record array, so that two records with equal field values stay      *)
(*     distinguishable;                                                    *)
(*   - a number that the code obtains by a division (avgPace) is an exact  *)
(*     rational <<numerator, denominator>> in lowest terms.                *)
(***************************************************************************)
EXTENDS Integers, Sequences, FiniteSets, TLC

VARIABLES
    laps,          \* fitData.lap: the lap array handed to computeLapStats
    records,       \* fitData.record: the record array handed to computeLapStats
    lapStats,      \* return value of the last direct call of computeLapStats
    called,        \* TRUE once computeLapStats has been called directly
    matched,       \* per lap, the locals of that call's map callback at
                   \* content.js:253 (what its console.log reports)
    allLapStats,   \* module variable allLapStats (content.js:7)
    shown,         \* TRUE once displayLaps has built the lap list
    checked,       \* checked[i]: state of the checkbox with data-index i-1
    statsRows,     \* the LapStats handed to generateStatsText by updateStats
    statsText,     \* "none" | "empty" | "table": what #gla-stats-text holds
    errorText,     \* text of #gla-error, "" while none was shown
    parser,        \* the FitParser object of src/fit-parser.js (its fields
                   \* bytes, offset, dataOffset, dataSize, definitions,
                   \* messages, lastTimestamp; threw: an exception was raised)
    parsePc,       \* where FitParser.parse stands: "idle" | "new" |
                   \* "records" | "returned" | "failed"
    fitInput,      \* how the buffer handed to FitParser was made up
    zipBytes,      \* the buffer handed to extractFitFromZip
    zipInput,      \* how that archive was made up
    zipResult,     \* None before the call, then what the call returned or threw
    jsonInput,     \* the document handed to parseJsonActivity
    jsonResult,    \* None before the call, then what the call returned or threw
    paceInput,     \* the argument handed to formatPace
    paceText,      \* None before the call, then the text formatPace returned
    csrfToken,     \* page script: the captured CSRF token, None while null
    pageTasks,     \* page script: per requestId, the run of the message
                   \* listener for that GLA_FETCH_REQUEST (its position and
                   \* its locals activityId, i, fitResp, dResp, sResp, its
                   \* calls of garminFetch and its posted responses)
    posted,        \* the messages posted to the window and not yet
                   \* dispatched to its listeners, oldest first
    location,      \* the activity id in window.location.href, None if none
    currentActivityId, \* module variable currentActivityId (content.js:4)
    fitData,       \* module variable fitData (content.js:5)
    panel,         \* module variable panel (content.js:6) with the display
                   \* state of its elements, None while null
    analyzers,     \* the calls of openAnalyzer so far, in order
    listeners      \* requestIds whose fetchActivityData handler is installed

lapVars == <<laps, records, lapStats, called, matched, allLapStats, shown,
             checked, statsRows, statsText, errorText>>

fitVars == <<parser, parsePc, fitInput>>

zipVars == <<zipBytes, zipInput, zipResult>>

jsonVars == <<jsonInput, jsonResult>>

formatVars == <<paceInput, paceText>>

pageVars == <<csrfToken, pageTasks>>

contentVars == <<location, currentActivityId, fitData, panel, analyzers, listeners>>

extensionVars == <<pageVars, posted, contentVars>>

restVars == <<formatVars, extensionVars>>

decodingVars == <<fitVars, zipVars, jsonVars, restVars>>

vars == <<lapVars, decodingVars>>

----------------------------------------------------------------------------
(* Bounds and resolutions of the model *)

MaxLaps == 2
MaxRecords == 2
DistUnitsPerMeter == 10
TicksPerSecond == 2

(* Program constant: the 10 m tolerance of content.js:204 *)
ToleranceMeters == 10

----------------------------------------------------------------------------
(* Optional values *)

None == << >>
Some(v) == << v >>
IsSome(o) == o # None
Val(o) == o[1]

(* JavaScript  x || 0  for an optional number: undefined, null and 0 give 0 *)
OrZero(o) == IF IsSome(o) /\ Val(o) # 0 THEN Val(o) ELSE 0

(* JavaScript  x || null  for an optional number: 0 is falsy, so it gives null *)
OrNullKeepZero(o) == o

OrNull(o) == IF IsSome(o) /\ Val(o) # 0 THEN o ELSE None

----------------------------------------------------------------------------
(* Exact rationals, for the result of a JavaScript division *)

Abs(x) == IF x < 0 THEN -x ELSE x

RECURSIVE Gcd(_, _)
Gcd(a, b) == IF b = 0 THEN a ELSE Gcd(b, a % b)

Rat(n, d) ==
    LET g == Gcd(Abs(n), Abs(d))
        s == IF d < 0 THEN -1 ELSE 1
    IN  << (s * n) \div g, (s * d) \div g >>

RatDiv(p, q) == Rat(p[1] * q[2], p[2] * q[1])
RatMul(p, q) == Rat(p[1] * q[1], p[2] * q[2])

(* Math.round(n / d) for d > 0: the nearest integer, halves rounded up *)
RoundDiv(n, d) == (2 * n + d) \div (2 * d)

----------------------------------------------------------------------------
(* Sequence helpers *)

Range(s) == {s[i] : i \in DOMAIN s}

SeqsUpTo(S, n) == UNION {[1..k -> S] : k \in 0..n}

RECURSIVE SumSeq(_)
SumSeq(s) == IF s = << >> THEN 0 ELSE s[1] + SumSeq(Tail(s))

RECURSIVE MinSeq(_)
MinSeq(s) ==
    IF Len(s) = 1 THEN s[1]
    ELSE LET m == MinSeq(Tail(s)) IN IF s[1] <= m THEN s[1] ELSE m

RECURSIVE MaxSeq(_)
MaxSeq(s) ==
    IF Len(s) = 1 THEN s[1]
    ELSE LET m == MaxSeq(Tail(s)) IN IF s[1] >= m THEN s[1] ELSE m

(* Array.prototype.find over a sequence s, for the positions Hits \subseteq  *)
(* DOMAIN s where the callback returns true: the element at the smallest   *)
(* such position, None (undefined) when there is none                      *)
FindFirst(s, Hits) ==
    IF Hits = {} THEN None
    ELSE Some(s[CHOOSE k \in Hits : \A j \in Hits : k <= j])

----------------------------------------------------------------------------
(* computeLapStats, content.js:185-266 *)

(* lapBounds (content.js:187-192): cumulative distance windows *)
RECURSIVE CumDist(_, _)
CumDist(ls, n) ==
    IF n = 0 THEN 0 ELSE CumDist(ls, n - 1) + OrZero(ls[n].total_distance)

LapBounds(ls) ==
    [i \in 1..Len(ls) |-> [start |-> CumDist(ls, i - 1), end |-> CumDist(ls, i)]]

(* records.filter((r) => r.distance != null), as record references *)
WithDistance(rs) ==
    SelectSeq([i \in 1..Len(rs) |-> i], LAMBDA i : IsSome(rs[i].distance))

(* Array.prototype.sort with comparator a.distance - b.distance: stable *)
RECURSIVE InsertByDistance(_, _, _)
InsertByDistance(rs, sorted, i) ==
    IF sorted = << >> THEN << i >>
    ELSE IF Val(rs[i].distance) < Val(rs[sorted[1]].distance)
         THEN << i >> \o sorted
         ELSE << sorted[1] >> \o InsertByDistance(rs, Tail(sorted), i)

RECURSIVE SortByDistance(_, _)
SortByDistance(rs, refs) ==
    IF refs = << >> THEN << >>
    ELSE InsertByDistance(rs,
                          SortByDistance(rs, SubSeq(refs, 1, Len(refs) - 1)),
                          refs[Len(refs)])

(* sortedRecords (content.js:195-197) *)
SortedRecords(rs) == SortByDistance(rs, WithDistance(rs))

Tolerance == ToleranceMeters * DistUnitsPerMeter

(* the distance filter of content.js:203-205 *)
InWindowNoTolerance(bound, d) ==
    /\ d >= bound.start
    /\ d <= bound.end

InWindow(bound, d) ==
    /\ d >= bound.start - Tolerance
    /\ d <= bound.end + Tolerance

DistanceMatched(rs, sortedRecords, bound) ==
    SelectSeq(sortedRecords, LAMBDA i : InWindow(bound, Val(rs[i].distance)))

(* the timestamp filter of content.js:209-211, over the input array *)
TimestampMatched(rs, lap) ==
    SelectSeq([i \in 1..Len(rs) |-> i],
              LAMBDA i : /\ IsSome(rs[i].timestamp)
                         /\ Val(rs[i].timestamp) >= Val(lap.start_time)
                         /\ Val(rs[i].timestamp) <= Val(lap.timestamp))

(* lapRecords after content.js:203-212 *)
LapRecordsMerged(rs, lap, byDistance) ==
    IF IsSome(lap.start_time) /\ IsSome(lap.timestamp)
    THEN byDistance \o TimestampMatched(rs, lap)
    ELSE byDistance

LapRecords(rs, lap, byDistance) ==
    IF Len(byDistance) = 0 /\ IsSome(lap.start_time) /\ IsSome(lap.timestamp)
    THEN TimestampMatched(rs, lap)
    ELSE byDistance

(* hrRecords and hrValues (content.js:215-216) *)
HrRecords(rs, lapRecords) ==
    SelectSeq(lapRecords,
              LAMBDA i : IsSome(rs[i].heart_rate) /\ Val(rs[i].heart_rate) > 0)

HrValues(rs, hrRecords) ==
    [k \in 1..Len(hrRecords) |-> Val(rs[hrRecords[k]].heart_rate)]

(* avgHR (content.js:222) *)
AvgHRTruncated(hrValues) == SumSeq(hrValues) \div Len(hrValues)

AvgHR(hrValues) == RoundDiv(SumSeq(hrValues), Len(hrValues))

(* minHRRecord (content.js:225) *)
MinHRRecord(rs, hrRecords, minHR) ==
    FindFirst(hrRecords,
              {k \in DOMAIN hrRecords : Val(rs[hrRecords[k]].heart_rate) = minHR})

(* timeToMinHR (content.js:226-230), in whole seconds *)
TimeToMinHR(rs, lap, minHRRecord) ==
    IF /\ IsSome(minHRRecord)
       /\ IsSome(rs[Val(minHRRecord)].timestamp)
       /\ IsSome(lap.start_time)
    THEN Some(RoundDiv(Val(rs[Val(minHRRecord)].timestamp) - Val(lap.start_time),
                       TicksPerSecond))
    ELSE None

(* elapsedTime (content.js:243-245), in ticks:                            *)
(*   lap.total_timer_time || (endTime - startTime) || 0                   *)
(* a missing (undefined) operand makes the difference NaN, which is       *)
(* falsy; the JSON adapter can deliver start_time = null only together    *)
(* with timestamp = total_timer_time, where null - as 0 - gives the same  *)
ElapsedTime(lap) ==
    IF IsSome(lap.total_timer_time) /\ Val(lap.total_timer_time) # 0
    THEN Val(lap.total_timer_time)
    ELSE IF IsSome(lap.timestamp) /\ IsSome(lap.start_time)
         THEN Val(lap.timestamp) - Val(lap.start_time)
         ELSE 0

(* avgPace (content.js:248-251), seconds per kilometre *)
PaceGuardDistanceOnly(totalDistance, elapsedTime) == totalDistance > 0

PaceGuard(totalDistance, elapsedTime) == totalDistance > 0 /\ elapsedTime > 0

AvgPace(totalDistance, elapsedTime) ==
    IF PaceGuard(totalDistance, elapsedTime)
    THEN Some(RatMul(RatDiv(Rat(elapsedTime, TicksPerSecond),
                            Rat(totalDistance, DistUnitsPerMeter)),
                     Rat(1000, 1)))
    ELSE None

(* lapNumber (content.js:256) from the 0-based map index *)
LapNumberZeroBased(index0) == index0

LapNumber(index0) == index0 + 1

(* One run of the map callback of content.js:199-265: its locals (record  *)
(* arrays as references) and the LapStat it returns                       *)
LapCallback(rs, sortedRecords, lap, bound, index0) ==
    LET byDistance == DistanceMatched(rs, sortedRecords, bound)
        lapRecords == LapRecords(rs, lap, byDistance)
        hrRecords == HrRecords(rs, lapRecords)
        hrValues == HrValues(rs, hrRecords)
        hasHR == Len(hrValues) > 0
        minHRRecord == IF hasHR
                       THEN MinHRRecord(rs, hrRecords, MinSeq(hrValues))
                       ELSE None
        totalDistance == OrZero(lap.total_distance)
        elapsedTime == ElapsedTime(lap)
    IN  [ bound       |-> bound,
          byDistance  |-> byDistance,
          lapRecords  |-> lapRecords,
          hrRecords   |-> hrRecords,
          minHRRecord |-> minHRRecord,
          stat |->
            [ lapNumber     |-> LapNumber(index0),
              totalDistance |-> totalDistance,
              avgPace       |-> AvgPace(totalDistance, elapsedTime),
              minHR         |-> IF hasHR THEN Some(MinSeq(hrValues)) ELSE None,
              maxHR         |-> IF hasHR THEN Some(MaxSeq(hrValues))
                                ELSE OrNull(lap.max_heart_rate),
              avgHR         |-> IF hasHR THEN Some(AvgHR(hrValues))
                                ELSE OrNull(lap.avg_heart_rate),
              timeToMinHR   |-> IF hasHR THEN TimeToMinHR(rs, lap, minHRRecord)
                                ELSE None,
              elapsedTime   |-> elapsedTime ] ]

(* all runs of the callback in one call of computeLapStats *)
LapCallbacks(ls, rs) ==
    LET lapBounds == LapBounds(ls)
        sortedRecords == SortedRecords(rs)
    IN  [i \in 1..Len(ls) |->
            LapCallback(rs, sortedRecords, ls[i], lapBounds[i], i - 1)]

(* the return value of computeLapStats (content.js:199, 255-264) *)
StatsOf(callbacks) == [i \in 1..Len(callbacks) |-> callbacks[i].stat]

computeLapStats(ls, rs) == StatsOf(LapCallbacks(ls, rs))

(* what the call leaves behind of the callbacks' locals *)
LocalsOf(callbacks) ==
    [i \in 1..Len(callbacks) |->
        [ bound       |-> callbacks[i].bound,
          byDistance  |-> callbacks[i].byDistance,
          lapRecords  |-> callbacks[i].lapRecords,
          hrRecords   |-> callbacks[i].hrRecords,
          minHRRecord |-> callbacks[i].minHRRecord ]]

(* The caller's arrays after the call.  laps.map and records.filter build  *)
(* new arrays; the in-place .sort() of content.js:197 orders the array     *)
(* that .filter() returned, not the caller's.                              *)
RecordsAfterSortInPlace(rs) ==
    LET refs == SortByDistance(rs, WithDistance(rs))
    IN  [k \in 1..Len(refs) |-> rs[refs[k]]]

RecordsAfterCall(rs) == rs

LapsAfterCall(ls) == ls

----------------------------------------------------------------------------
(* Lap selection UI, content.js:370-420 *)

(* updateStats (content.js:416-418): the checked checkboxes in document   *)
(* order, their data-index, and the LapStats at those indices             *)
CheckedIndices(chk) == SelectSeq([i \in 1..Len(chk) |-> i], LAMBDA i : chk[i])

SelectedIgnoringCheckboxes(stats, chk) == stats

Selected(stats, chk) ==
    LET indices == CheckedIndices(chk)
    IN  [k \in 1..Len(indices) |-> stats[indices[k]]]

(* generateStatsText (content.js:280-297): which text is produced *)
StatsTextKind(stats) == IF Len(stats) = 0 THEN "empty" ELSE "table"

(* the effect of updateStats() for the checkbox states chk *)
UpdateStats(stats, chk) ==
    /\ statsRows' = Selected(stats, chk)
    /\ statsText' = StatsTextKind(Selected(stats, chk))

----------------------------------------------------------------------------
(* Input values *)

MkLap(td, st, en, ttt, avg, max) ==
    [ total_distance |-> td, start_time |-> st, timestamp |-> en,
      total_timer_time |-> ttt, avg_heart_rate |-> avg, max_heart_rate |-> max ]

MkRecord(ts, hr, d) == [ timestamp |-> ts, heart_rate |-> hr, distance |-> d ]

(* a lap of 30 m, and record distances around its end + 10 m and around   *)
(* the start - 10 m of a second such lap                                   *)
LapLength == 30 * DistUnitsPerMeter
LapStart == 10 * TicksPerSecond
LapEnd == 12 * TicksPerSecond

(* Inputs that vary what decides the matching of records to laps *)
LapsWindow ==
    { MkLap(td, Some(LapStart), en, None, None, None) :
        td \in {None, Some(LapLength)}, en \in {None, Some(LapEnd)} }
    \cup
    { MkLap(Some(LapLength), None, Some(LapEnd), None, None, None) }

(* with laps of LapLength: lap 1 matches distances up to LapLength +      *)
(* Tolerance, lap 2 from LapLength - Tolerance                            *)
RecordsWindow ==
    { MkRecord(Some(LapStart), Some(120), d) :
        d \in { None,
                Some(LapLength - Tolerance - 1),
                Some(LapLength - Tolerance),
                Some(LapLength + Tolerance - 1),
                Some(LapLength + Tolerance),
                Some(LapLength + Tolerance + 1) } }
    \cup
    { MkRecord(ts, Some(120), None) :
        ts \in {None, Some(LapEnd), Some(LapEnd + 1)} }

(* Inputs that vary the heart rates, the timestamps and the order of the   *)
(* records: the two distances both lie in the window of a first lap of     *)
(* LapLength, in either order                                              *)
LapsHR ==
    { MkLap(Some(LapLength), Some(LapStart), Some(LapEnd), None, None, None),
      MkLap(None, Some(LapStart), Some(LapEnd), None, None, None),
      MkLap(Some(LapLength), None, Some(LapEnd), None, None, None) }

RecordsHR ==
    { MkRecord(Some(ts), Some(hr), Some(d)) :
        ts \in {LapStart, LapEnd - 1},
        hr \in {120, 121},
        d \in {LapLength - 2 * Tolerance, LapLength - Tolerance} }
    \cup
    { MkRecord(None, Some(120), Some(LapLength - 2 * Tolerance)),
      MkRecord(Some(LapStart), Some(0), Some(LapLength - 2 * Tolerance)),
      MkRecord(Some(LapStart), None, Some(LapLength - Tolerance)),
      MkRecord(Some(LapEnd - 1), Some(119), None) }

(* Inputs that vary the heart rates of the lap summary, with records that *)
(* carry no, a zero or a positive heart rate; the last record is matched   *)
(* by no lap                                                               *)
LapsSummary ==
    { MkLap(Some(LapLength), Some(LapStart), Some(LapEnd), None, avg, max) :
        avg \in {None, Some(0), Some(125)}, max \in {None, Some(0), Some(140)} }
    \cup
    { MkLap(None, Some(LapStart), Some(LapEnd), None, Some(125), Some(140)) }

RecordsSummary ==
    { MkRecord(Some(LapStart), hr, Some(LapLength - 2 * Tolerance)) :
        hr \in {None, Some(0), Some(120)} }
    \cup
    { MkRecord(None, Some(120), None) }

(* Inputs that vary what elapsedTime and avgPace are computed from *)
LapsPace ==
    { MkLap(td, t[1], t[2], ttt, None, None) :
        td \in {None, Some(0), Some(LapLength)},
        ttt \in {None, Some(0), Some(5)},
        t \in { <<Some(LapStart), Some(LapEnd)>>,
                <<Some(LapEnd), Some(LapStart)>>,
                <<Some(LapStart), None>> } }

RecordsPace == { MkRecord(Some(LapStart), Some(120), Some(LapLength)) }

(* Inputs of the lap selection UI *)
LapsUI == LapsHR

RecordsUI ==
    { MkRecord(Some(LapStart), Some(120), Some(LapLength - 2 * Tolerance)),
      MkRecord(Some(LapEnd - 1), Some(121), Some(LapLength + 2 * Tolerance)) }

----------------------------------------------------------------------------
(* FIT decoder, src/fit-parser.js                                          *)
(*                                                                         *)
(* A byte buffer is a sequence of 0..255; the JavaScript offset o is the   *)
(* element o + 1.  An integer-valued JavaScript number n is the pair       *)
(* <<q, r>> with n = 32 * q + r and 0 <= r < 32 (every 32-bit value and    *)
(* every sum the decoder forms is exact in it).  A decoded float is the    *)
(* tuple of its 4 or 8 bytes, least significant first.                     *)

NumOfInt(n) == << n \div 32, n % 32 >>
NumAddInt(x, k) == << x[1] + (x[2] + k) \div 32, (x[2] + k) % 32 >>
NumLess(x, y) == x[1] < y[1] \/ (x[1] = y[1] /\ x[2] < y[2])
NumLeq(x, y) == x = y \/ NumLess(x, y)

(* ToInt32 of a number, as done by the operands of & *)
ToInt32(x) ==
    LET q == x[1] % 134217728
    IN  << IF q >= 67108864 THEN q - 134217728 ELSE q, x[2] >>

(* x & 0xFFFFFFE0 and x & 0x1F (fit-parser.js:102-103): & yields an int32 *)
AndFFFFFFE0(x) == << ToInt32(x)[1], 0 >>

And1F(x) == x[2]

(* DataView reads at offset o; the caller has checked the bounds *)
CanRead(bytes, o, n) == o >= 0 /\ o + n <= Len(bytes)

(* the n bytes at o, least significant first *)
BytesLE(bytes, o, n, littleEndian) ==
    [k \in 1..n |-> IF littleEndian THEN bytes[o + k] ELSE bytes[o + n + 1 - k]]

UnsignedOf(b) ==
    IF Len(b) = 1 THEN NumOfInt(b[1])
    ELSE IF Len(b) = 2 THEN NumOfInt(b[1] + 256 * b[2])
    ELSE LET lo == b[1] + 256 * b[2] + 65536 * b[3]
         IN  << lo \div 32 + 524288 * b[4], lo % 32 >>

SignedOf(b) ==
    LET u == UnsignedOf(b)
    IN  IF b[Len(b)] < 128 THEN u
        ELSE IF Len(b) = 1 THEN NumAddInt(u, -256)
        ELSE IF Len(b) = 2 THEN NumAddInt(u, -65536)
        ELSE << u[1] - 134217728, u[2] >>

ReadValue(read, bytes, o, n, littleEndian) ==
    LET b == BytesLE(bytes, o, n, littleEndian)
    IN  IF read \in {"getUint8", "getUint16", "getUint32"} THEN UnsignedOf(b)
        ELSE IF read \in {"getInt8", "getInt16", "getInt32"} THEN SignedOf(b)
        ELSE b

getUint8(bytes, o) == bytes[o + 1]
getUint16(bytes, o, littleEndian) ==
    IF littleEndian THEN bytes[o + 1] + 256 * bytes[o + 2]
    ELSE bytes[o + 2] + 256 * bytes[o + 1]
getUint32(bytes, o, littleEndian) == UnsignedOf(BytesLE(bytes, o, 4, littleEndian))

(* FIT_MSG_NAMES (fit-parser.js:4-7) *)
FIT_MSG_NAMES ==
    [ n \in {0, 18, 19, 20, 21, 23, 34} |->
        CASE n = 0 -> "file_id" [] n = 18 -> "session" [] n = 19 -> "lap"
          [] n = 20 -> "record" [] n = 21 -> "event" [] n = 23 -> "device_info"
          [] n = 34 -> "activity" ]

(* FIT_FIELDS (fit-parser.js:9-35); scale 1 and offset 0 stand for absent *)
Profile(name, scale, offset) == [ name |-> name, scale |-> scale, offset |-> offset ]

FIT_FIELDS ==
    [ g \in {19, 20} |->
        IF g = 19
        THEN [ f \in {2, 7, 8, 9, 13, 14, 15, 16, 110, 111, 253} |->
                 CASE f = 2 -> Profile("start_time", 1, 0)
                   [] f = 7 -> Profile("total_elapsed_time", 1000, 0)
                   [] f = 8 -> Profile("total_timer_time", 1000, 0)
                   [] f = 9 -> Profile("total_distance", 100, 0)
                   [] f = 13 -> Profile("avg_speed", 1000, 0)
                   [] f = 14 -> Profile("max_speed", 1000, 0)
                   [] f = 15 -> Profile("avg_heart_rate", 1, 0)
                   [] f = 16 -> Profile("max_heart_rate", 1, 0)
                   [] f = 110 -> Profile("enhanced_avg_speed", 1000, 0)
                   [] f = 111 -> Profile("enhanced_max_speed", 1000, 0)
                   [] f = 253 -> Profile("timestamp", 1, 0) ]
        ELSE [ f \in {0, 1, 2, 3, 4, 5, 6, 73, 78, 253} |->
                 CASE f = 0 -> Profile("position_lat", 1, 0)
                   [] f = 1 -> Profile("position_long", 1, 0)
                   [] f = 2 -> Profile("altitude", 5, 500)
                   [] f = 3 -> Profile("heart_rate", 1, 0)
                   [] f = 4 -> Profile("cadence", 1, 0)
                   [] f = 5 -> Profile("distance", 100, 0)
                   [] f = 6 -> Profile("speed", 1000, 0)
                   [] f = 73 -> Profile("enhanced_speed", 1000, 0)
                   [] f = 78 -> Profile("enhanced_altitude", 5, 500)
                   [] f = 253 -> Profile("timestamp", 1, 0) ] ]

(* FIT_FIELDS[def.globalMsgNum] || {} , then [field.num] (fit-parser.js:156,161) *)
ProfileOf(globalMsgNum, num) ==
    IF globalMsgNum \in DOMAIN FIT_FIELDS /\ num \in DOMAIN FIT_FIELDS[globalMsgNum]
    THEN Some(FIT_FIELDS[globalMsgNum][num])
    ELSE None

(* BASE_TYPES (fit-parser.js:37-52); read "" stands for null *)
TypeInfo(size, read, invalid) == [ size |-> size, read |-> read, invalid |-> invalid ]

BASE_TYPES ==
    [ t \in {0, 1, 2, 131, 132, 133, 134, 7, 136, 137, 10, 139, 140, 13} |->
        CASE t = 0 -> TypeInfo(1, "getUint8", Some(NumOfInt(255)))
          [] t = 1 -> TypeInfo(1, "getInt8", Some(NumOfInt(127)))
          [] t = 2 -> TypeInfo(1, "getUint8", Some(NumOfInt(255)))
          [] t = 131 -> TypeInfo(2, "getInt16", Some(NumOfInt(32767)))
          [] t = 132 -> TypeInfo(2, "getUint16", Some(NumOfInt(65535)))
          [] t = 133 -> TypeInfo(4, "getInt32", Some(<< 67108863, 31 >>))
          [] t = 134 -> TypeInfo(4, "getUint32", Some(<< 134217727, 31 >>))
          [] t = 7 -> TypeInfo(1, "", Some(NumOfInt(0)))
          [] t = 136 -> TypeInfo(4, "getFloat32", None)
          [] t = 137 -> TypeInfo(8, "getFloat64", None)
          [] t = 10 -> TypeInfo(1, "getUint8", Some(NumOfInt(0)))
          [] t = 139 -> TypeInfo(2, "getUint16", Some(NumOfInt(0)))
          [] t = 140 -> TypeInfo(4, "getUint32", Some(NumOfInt(0)))
          [] t = 13 -> TypeInfo(1, "", None) ]

(* BASE_TYPES[baseType] || BASE_TYPES[baseType & 0x1F] (fit-parser.js:195) *)
TypeInfoOf(baseType) ==
    IF baseType \in DOMAIN BASE_TYPES THEN Some(BASE_TYPES[baseType])
    ELSE IF baseType % 32 \in DOMAIN BASE_TYPES THEN Some(BASE_TYPES[baseType % 32])
    ELSE None

(* the sentinel test of fit-parser.js:213 *)
IsInvalidNever(typeInfo, value) == FALSE

IsInvalid(typeInfo, value) ==
    IsSome(typeInfo.invalid) /\ value = Val(typeInfo.invalid)

(* _readField (fit-parser.js:193-216): the cursor after it, the value     *)
(* (None for null) and whether the DataView read threw                    *)
ReadField(bytes, o, field, littleEndian) ==
    LET typeInfo == TypeInfoOf(field.baseType)
    IN  IF ~IsSome(typeInfo) \/ Val(typeInfo).read = ""
        THEN [ offset |-> o + field.size,
               value |-> None, threw |-> FALSE ]
        ELSE IF field.size # Val(typeInfo).size
        THEN [ offset |-> o + field.size,
               value |-> None, threw |-> FALSE ]
        ELSE IF ~CanRead(bytes, o, field.size)
        THEN [ offset |-> o, value |-> None, threw |-> TRUE ]
        ELSE LET value == ReadValue(Val(typeInfo).read, bytes, o, field.size,
                                    littleEndian)
             IN  [ offset |-> o + field.size,
                   value |-> IF IsInvalid(Val(typeInfo), value)
                             THEN None ELSE Some(value),
                   threw |-> FALSE ]

(* a decoded field value after the scale and offset of its profile      *)
(* (fit-parser.js:163-166): raw / scale - offset, kept unevaluated       *)
Scaled(raw, profile) ==
    [ raw |-> raw, scale |-> profile.scale, offset |-> profile.offset ]

Unscaled(raw) == [ raw |-> raw, scale |-> 1, offset |-> 0 ]

(* obj[key] = value on an object kept as a function over its own keys *)
SetKeyKeepsOld(obj, key, value) == obj @@ (key :> value)

SetKey(obj, key, value) == (key :> value) @@ obj

EmptyObject == << >>

HasKey(obj, key) == key \in DOMAIN obj

(* the loop over def.fields (fit-parser.js:159-168) from field k on *)
RECURSIVE ReadFields(_, _, _, _, _)
ReadFields(bytes, o, def, k, msg) ==
    IF k > Len(def.fields)
    THEN [ offset |-> o, msg |-> msg, threw |-> FALSE ]
    ELSE LET field == def.fields[k]
             r == ReadField(bytes, o, field, def.littleEndian)
             profile == ProfileOf(def.globalMsgNum, field.num)
         IN  IF r.threw
             THEN [ offset |-> r.offset, msg |-> msg, threw |-> TRUE ]
             ELSE ReadFields(bytes, r.offset, def, k + 1,
                     IF IsSome(profile) /\ IsSome(r.value)
                     THEN SetKey(msg, Val(profile).name,
                                 Scaled(Val(r.value), Val(profile)))
                     ELSE msg)

(* the developer fields are skipped unread (fit-parser.js:171-173) *)
DevFieldsNotSkipped(def) == 0

DevFieldsSize(def) == SumSeq([k \in 1..Len(def.devFields) |-> def.devFields[k].size])

(* compressedTs !== undefined && msg.timestamp == null (fit-parser.js:176) *)
Inject(msg, compressedTs) == IsSome(compressedTs) /\ ~HasKey(msg, "timestamp")

(* FIT_MSG_NAMES[def.globalMsgNum] and the push (fit-parser.js:186-190) *)
StoreLapAndRecordOnly(messages, globalMsgNum, msg) ==
    IF globalMsgNum \in {19, 20}
    THEN LET typeName == FIT_MSG_NAMES[globalMsgNum]
         IN  IF HasKey(messages, typeName)
             THEN [messages EXCEPT ![typeName] = Append(@, msg)]
             ELSE SetKey(messages, typeName, << msg >>)
    ELSE messages

Store(messages, globalMsgNum, msg) ==
    IF globalMsgNum \in DOMAIN FIT_MSG_NAMES
    THEN LET typeName == FIT_MSG_NAMES[globalMsgNum]
         IN  IF HasKey(messages, typeName)
             THEN [messages EXCEPT ![typeName] = Append(@, msg)]
             ELSE SetKey(messages, typeName, << msg >>)
    ELSE messages

ParseDataMessageKeepsPartial(p, localType, compressedTs) ==
    IF ~HasKey(p.definitions, localType)
    THEN [ p EXCEPT !.threw = TRUE ]
    ELSE LET def == p.definitions[localType]
             r == ReadFields(p.bytes, p.offset, def, 1, EmptyObject)
         IN  [ p EXCEPT !.offset = r.offset + DevFieldsSize(def),
                        !.threw = r.threw,
                        !.messages = Store(@, def.globalMsgNum, r.msg) ]

(* _parseDataMessage (fit-parser.js:150-191) on the parser p, whose cursor *)
(* is past the record header; threw tells whether it raised               *)
ParseDataMessage(p, localType, compressedTs) ==
    IF ~HasKey(p.definitions, localType)
    THEN [ p EXCEPT !.threw = TRUE ]
    ELSE LET def == p.definitions[localType]
             r == ReadFields(p.bytes, p.offset, def, 1, EmptyObject)
             msg == IF Inject(r.msg, compressedTs)
                    THEN SetKey(r.msg, "timestamp", Unscaled(Val(compressedTs)))
                    ELSE r.msg
         IN  IF r.threw
             THEN [ p EXCEPT !.offset = r.offset, !.threw = TRUE ]
             ELSE [ p EXCEPT
                      !.offset = r.offset + DevFieldsSize(def),
                      !.lastTimestamp = IF HasKey(msg, "timestamp")
                                        THEN msg["timestamp"].raw ELSE @,
                      !.messages = Store(@, def.globalMsgNum, msg) ]

(* n successive getUint8(this.offset++) from offset o: the cursor ends    *)
(* one past the read that threw                                           *)
BytesRead(bytes, o, n) ==
    IF CanRead(bytes, o, n)
    THEN [ offset |-> o + n, threw |-> FALSE ]
    ELSE [ offset |-> (IF Len(bytes) > o THEN Len(bytes) ELSE o) + 1, threw |-> TRUE ]

FieldDefs(bytes, o, n) ==
    [ k \in 1..n |-> [ num |-> getUint8(bytes, o + 3 * (k - 1)),
                       size |-> getUint8(bytes, o + 3 * (k - 1) + 1),
                       baseType |-> getUint8(bytes, o + 3 * (k - 1) + 2) ] ]

DevFieldDefs(bytes, o, n) ==
    [ k \in 1..n |-> [ num |-> getUint8(bytes, o + 3 * (k - 1)),
                       size |-> getUint8(bytes, o + 3 * (k - 1) + 1),
                       devIdx |-> getUint8(bytes, o + 3 * (k - 1) + 2) ] ]

(* _parseDefinition (fit-parser.js:118-148), cursor past the record header *)
ParseDefinition(p, localType, hasDev) ==
    LET bytes == p.bytes
        archAt == p.offset + 1
        Threw(o) == [ p EXCEPT !.offset = o, !.threw = TRUE ]
    IN  IF ~CanRead(bytes, archAt, 1) THEN Threw(archAt + 1)
        ELSE IF ~CanRead(bytes, archAt + 1, 2) THEN Threw(archAt + 1)
        ELSE IF ~CanRead(bytes, archAt + 3, 1) THEN Threw(archAt + 4)
        ELSE
        LET littleEndian == getUint8(bytes, archAt) = 0
            globalMsgNum == getUint16(bytes, archAt + 1, littleEndian)
            numFields == getUint8(bytes, archAt + 3)
            f == BytesRead(bytes, archAt + 4, 3 * numFields)
        IN  IF f.threw THEN Threw(f.offset)
            ELSE
            LET fields == FieldDefs(bytes, archAt + 4, numFields)
                n == IF hasDev THEN BytesRead(bytes, f.offset, 1) ELSE f
                numDev == IF hasDev /\ ~n.threw THEN getUint8(bytes, f.offset) ELSE 0
                d == IF n.threw THEN n ELSE BytesRead(bytes, n.offset, 3 * numDev)
            IN  IF d.threw THEN Threw(d.offset)
                ELSE [ p EXCEPT
                         !.offset = d.offset,
                         !.definitions =
                             SetKey(@, localType,
                                 [ globalMsgNum |-> globalMsgNum,
                                   littleEndian |-> littleEndian,
                                   fields |-> fields,
                                   devFields |-> DevFieldDefs(bytes, n.offset, numDev) ]) ]

(* the compressed timestamp of fit-parser.js:100-103 *)
CompressedTimestamp(prev, timeOffset) ==
    LET ts == NumAddInt(AndFFFFFFE0(prev), timeOffset)
    IN  IF timeOffset < And1F(prev) THEN NumAddInt(ts, 32) ELSE ts

(* _parseRecord (fit-parser.js:94-116) *)
ParseRecord(p) ==
    IF ~CanRead(p.bytes, p.offset, 1)
    THEN [ p EXCEPT !.offset = @ + 1, !.threw = TRUE ]
    ELSE LET header == getUint8(p.bytes, p.offset)
             q == [ p EXCEPT !.offset = @ + 1 ]
         IN  IF header >= 128
             THEN LET ts == CompressedTimestamp(p.lastTimestamp, header % 32)
                  IN  ParseDataMessage([ q EXCEPT !.lastTimestamp = ts ],
                                       (header \div 32) % 4, Some(ts))
             ELSE IF (header \div 64) % 2 = 1
             THEN ParseDefinition(q, header % 16, (header \div 32) % 2 = 1)
             ELSE ParseDataMessage(q, header % 16, None)

(* new FitParser(buffer) (fit-parser.js:55-67) *)
NewFitParser(bytes) ==
    [ bytes |-> bytes, offset |-> 0, dataOffset |-> 0, dataSize |-> NumOfInt(0),
      definitions |-> EmptyObject, messages |-> EmptyObject,
      lastTimestamp |-> NumOfInt(0), threw |-> FALSE ]

SignatureAny(bytes) == TRUE

(* sig === '.FIT' over bytes[8..11], undefined past the end (fit-parser.js:86-89) *)
SignatureOk(bytes) ==
    /\ Len(bytes) >= 12
    /\ << bytes[9], bytes[10], bytes[11], bytes[12] >> = << 46, 70, 73, 84 >>

(* _parseHeader (fit-parser.js:83-92) *)
ParseHeader(p) ==
    IF ~CanRead(p.bytes, 0, 1) \/ ~CanRead(p.bytes, 4, 4)
    THEN [ p EXCEPT !.threw = TRUE ]
    ELSE IF ~SignatureOk(p.bytes)
    THEN [ p EXCEPT !.dataSize = getUint32(p.bytes, 4, TRUE), !.threw = TRUE ]
    ELSE [ p EXCEPT !.offset = getUint8(p.bytes, 0),
                    !.dataOffset = getUint8(p.bytes, 0),
                    !.dataSize = getUint32(p.bytes, 4, TRUE) ]

(* this.offset < dataEnd (fit-parser.js:71-72) *)
MoreRecords(p) ==
    NumLess(NumOfInt(p.offset), NumAddInt(p.dataSize, p.dataOffset))

----------------------------------------------------------------------------
(* ZIP extraction, src/content.js:11-80 *)

(* a 32-bit value used as a buffer offset or a length: exact below 2^25,  *)
(* and 2^25, past the end of every buffer of the model, from there on     *)
OffsetOf(x) == IF x[1] < 1048576 THEN 32 * x[1] + x[2] ELSE 33554432

Min(a, b) == IF a < b THEN a ELSE b
Max(a, b) == IF a > b THEN a ELSE b

(* zipBytes.slice(from, to): clamped to the buffer *)
Slice(bytes, from, to) == SubSeq(bytes, Min(from, Len(bytes)) + 1, Min(to, Len(bytes)))

(* view.getUint32(o, true) === signature, the signature given by its bytes *)
HasSignatureAt(bytes, o, sig) ==
    << bytes[o + 1], bytes[o + 2], bytes[o + 3], bytes[o + 4] >> = sig

EocdSignature == << 80, 75, 5, 6 >>
CentralSignature == << 80, 75, 1, 2 >>

Returned(value) == [ ok |-> TRUE, value |-> value, error |-> "" ]
Thrown(error) == [ ok |-> FALSE, value |-> << >>, error |-> error ]

(* the backward search of content.js:15-22: the last offset in the window *)
(* that holds the signature, -1 if none                                   *)
EocdWindow == 65557

EocdOffset(bytes) ==
    LET hits == { i \in Max(0, Len(bytes) - EocdWindow)..(Len(bytes) - 22) :
                    HasSignatureAt(bytes, i, EocdSignature) }
    IN  IF hits = {} THEN -1 ELSE CHOOSE i \in hits : \A j \in hits : j <= i

(* name.toLowerCase().endsWith('.fit') on the decoded name (ASCII names) *)
ToLowerCase(name) ==
    [k \in 1..Len(name) |-> IF name[k] >= 65 /\ name[k] <= 90 THEN name[k] + 32 ELSE name[k]]

EndsWithFit(name) ==
    /\ Len(name) >= 4
    /\ SubSeq(ToLowerCase(name), Len(name) - 3, Len(name)) = << 46, 102, 105, 116 >>

(* inflateRaw (content.js:59-80) through DecompressionStream('deflate-raw'), *)
(* for streams made of stored blocks; anything else is rejected           *)
RECURSIVE InflateBlocks(_, _)
InflateBlocks(data, out) ==
    IF Len(data) < 5 \/ (data[1] \div 2) % 4 # 0
    THEN Thrown("TypeError")
    ELSE LET len == data[2] + 256 * data[3]
             nlen == data[4] + 256 * data[5]
             final == data[1] % 2 = 1
         IN  IF len + nlen # 65535 \/ Len(data) < 5 + len
             THEN Thrown("TypeError")
             ELSE IF final
             THEN IF Len(data) > 5 + len THEN Thrown("TypeError")
                  ELSE Returned(out \o SubSeq(data, 6, 5 + len))
             ELSE InflateBlocks(SubSeq(data, 6 + len, Len(data)),
                                out \o SubSeq(data, 6, 5 + len))

inflateRaw(data) == InflateBlocks(data, << >>)

MethodAlwaysStored(method, compressed) == Returned(compressed)

(* content.js:50-52 *)
Decompress(method, compressed) ==
    IF method = 0 THEN Returned(compressed)
    ELSE IF method = 8 THEN inflateRaw(compressed)
    ELSE Thrown("Unsupported compression method")

(* the loop over the central directory (content.js:28-54) with i entries  *)
(* still to walk from offset                                              *)
RECURSIVE WalkEntries(_, _, _)
WalkEntries(bytes, offset, remaining) ==
    IF remaining = 0 THEN Thrown("No .fit file found in ZIP")
    ELSE IF ~CanRead(bytes, offset, 4) THEN Thrown("RangeError")
    ELSE IF ~HasSignatureAt(bytes, offset, CentralSignature)
    THEN Thrown("Invalid central directory")
    ELSE IF ~CanRead(bytes, offset, 46) THEN Thrown("RangeError")
    ELSE
    LET method == getUint16(bytes, offset + 10, TRUE)
        compSize == OffsetOf(getUint32(bytes, offset + 20, TRUE))
        nameLen == getUint16(bytes, offset + 28, TRUE)
        extraLen == getUint16(bytes, offset + 30, TRUE)
        commentLen == getUint16(bytes, offset + 32, TRUE)
        localOffset == OffsetOf(getUint32(bytes, offset + 42, TRUE))
        name == Slice(bytes, offset + 46, offset + 46 + nameLen)
    IN  IF EndsWithFit(name)
        THEN IF ~CanRead(bytes, localOffset + 26, 4) THEN Thrown("RangeError")
             ELSE LET localNameLen == getUint16(bytes, localOffset + 26, TRUE)
                      localExtraLen == getUint16(bytes, localOffset + 28, TRUE)
                      dataStart == localOffset + 30 + localNameLen + localExtraLen
                  IN  Decompress(method, Slice(bytes, dataStart, dataStart + compSize))
        ELSE WalkEntries(bytes, offset + 46 + nameLen + extraLen + commentLen,
                         remaining - 1)

(* extractFitFromZip (content.js:11-57) *)
extractFitFromZip(bytes) ==
    LET eocdOffset == EocdOffset(bytes)
    IN  IF eocdOffset = -1 THEN Thrown("Invalid ZIP file")
        ELSE WalkEntries(bytes,
                         OffsetOf(getUint32(bytes, eocdOffset + 16, TRUE)),
                         getUint16(bytes, eocdOffset + 10, TRUE))

----------------------------------------------------------------------------
(* JSON adapter, src/content.js:123-181                                    *)
(*                                                                         *)
(* A JSON text is Unparsable or the text of a document; a member that is   *)
(* missing or null is None, a present one Some(v); numbers are integers;   *)
(* a date string is the epoch millisecond it denotes.                      *)

Unparsable == [ parsable |-> FALSE ]
NullDocument == [ parsable |-> TRUE, isNull |-> TRUE ]
Document(details, splits) ==
    [ parsable |-> TRUE, isNull |-> FALSE, details |-> details, splits |-> splits ]

Details(metricDescriptors, activityDetailMetrics, geoPolylineDTO) ==
    [ metricDescriptors |-> metricDescriptors,
      activityDetailMetrics |-> activityDetailMetrics,
      geoPolylineDTO |-> geoPolylineDTO ]

Descriptor(metricsIndex, key) == [ metricsIndex |-> metricsIndex, key |-> key ]

SplitsObject(lapDTOs) == [ isArray |-> FALSE, lapDTOs |-> lapDTOs ]
SplitsArray(items) == [ isArray |-> TRUE, laps |-> items ]

RatAddInt(p, k) == Rat(p[1] + k * p[2], p[2])

(* for (const d of descriptors) idx[d.metricsIndex] = d.key (content.js:128-132) *)
RECURSIVE IndexKeys(_, _)
IndexKeys(descriptors, idx) ==
    IF descriptors = << >> THEN idx
    ELSE IndexKeys(Tail(descriptors),
                   SetKey(idx, Head(descriptors).metricsIndex, Head(descriptors).key))

(* vals[i] / 1000 (content.js:141): null counts as 0 *)
MillisToSeconds(v) == Some(Rat(IF IsSome(v) THEN Val(v) ELSE 0, 1000))

(* the loop over the values of one row (content.js:139-145), from the     *)
(* 0-based position i on                                                  *)
RECURSIVE RowRecord(_, _, _, _)
RowRecord(vals, idx, i, record) ==
    IF i >= Len(vals) THEN record
    ELSE LET key == IF HasKey(idx, i) THEN idx[i] ELSE ""
             v == vals[i + 1]
         IN  RowRecord(vals, idx, i + 1,
                 IF key = "directTimestamp"
                 THEN SetKey(record, "timestamp", MillisToSeconds(v))
                 ELSE IF key = "directHeartRate" THEN SetKey(record, "heart_rate", v)
                 ELSE IF key = "directDistance" THEN SetKey(record, "distance", v)
                 ELSE IF key = "directSpeed" THEN SetKey(record, "speed", v)
                 ELSE record)

(* record.timestamp != null (content.js:146) *)
HasTimestamp(record) == HasKey(record, "timestamp") /\ IsSome(record["timestamp"])

(* the loop over the rows (content.js:136-147) *)
RECURSIVE RowRecords(_, _)
RowRecords(metrics, idx) ==
    IF metrics = << >> THEN << >>
    ELSE LET m == Head(metrics)
             vals == IF IsSome(m.metrics) THEN Val(m.metrics) ELSE << >>
             record == RowRecord(vals, idx, 0, EmptyObject)
         IN  (IF HasTimestamp(record) THEN << record >> ELSE << >>)
             \o RowRecords(Tail(metrics), idx)

(* a || b || 0 and a || b || null on optional numbers *)
FirstTruthy(a, b) ==
    IF IsSome(a) /\ Val(a) # 0 THEN a ELSE IF IsSome(b) /\ Val(b) # 0 THEN b ELSE None

(* the lap built at content.js:152-165 *)
LapOfSplit(lap) ==
    LET duration == OrZero(FirstTruthy(lap.duration, lap.elapsedDuration))
        startGmt == Rat(IF IsSome(lap.startTimeGMT) THEN Val(lap.startTimeGMT) ELSE 0, 1000)
    IN  [ start_time |-> IF IsSome(lap.startTimeGMT) THEN Some(startGmt)
                         ELSE IF IsSome(lap.startTimeInSeconds)
                         THEN Some(Rat(Val(lap.startTimeInSeconds), 1))
                         ELSE None,
          timestamp |-> IF IsSome(lap.startTimeGMT) THEN RatAddInt(startGmt, duration)
                        ELSE Rat(OrZero(lap.startTimeInSeconds) + duration, 1),
          total_timer_time |-> duration,
          total_distance |-> OrZero(lap.distance),
          avg_heart_rate |-> FirstTruthy(lap.averageHR, lap.averageHeartRate),
          max_heart_rate |-> FirstTruthy(lap.maxHR, lap.maxHeartRate),
          avg_speed |-> OrNull(lap.averageSpeed) ]

ThrowsWhenPartMissing(doc) ==
    \/ ~IsSome(doc.details)
    \/ ~IsSome(doc.splits)
    \/ (~Val(doc.splits).isArray /\ ~IsSome(Val(doc.splits).lapDTOs))

(* what makes the function throw: JSON.parse, the destructuring of null,  *)
(* a property read on a missing details, for...of over a splits object    *)
(* without lapDTOs (content.js:124, 128, 150-151)                         *)
Throws(doc) ==
    \/ ~IsSome(doc.details)
    \/ (IsSome(doc.splits) /\ ~Val(doc.splits).isArray
          /\ ~IsSome(Val(doc.splits).lapDTOs))

(* parseJsonActivity (content.js:123-181) *)
parseJsonActivity(jsonStr) ==
    IF ~jsonStr.parsable THEN Thrown("SyntaxError")
    ELSE IF jsonStr.isNull THEN Thrown("TypeError")
    ELSE IF Throws(jsonStr) THEN Thrown("TypeError")
    ELSE
    LET details == Val(jsonStr.details)
        descriptors == IF IsSome(details.metricDescriptors)
                       THEN Val(details.metricDescriptors) ELSE << >>
        idx == IndexKeys(descriptors, EmptyObject)
        metrics == IF IsSome(details.activityDetailMetrics)
                   THEN Val(details.activityDetailMetrics)
                   ELSE IF IsSome(details.geoPolylineDTO)
                           /\ IsSome(Val(details.geoPolylineDTO).metrics)
                   THEN Val(Val(details.geoPolylineDTO).metrics)
                   ELSE << >>
        lapSplits == IF ~IsSome(jsonStr.splits) THEN << >>
                     ELSE IF Val(jsonStr.splits).isArray THEN Val(jsonStr.splits).laps
                     ELSE Val(Val(jsonStr.splits).lapDTOs)
    IN  Returned([ lap |-> [k \in 1..Len(lapSplits) |-> LapOfSplit(lapSplits[k])],
                   record |-> RowRecords(metrics, idx) ])

----------------------------------------------------------------------------
(* formatPace, src/content.js:268-273                                      *)
(*                                                                         *)
(* The argument is null, a non-finite number or an exact rational number   *)
(* of seconds; the result is the text, one character per element.          *)

PaceNull == [ kind |-> "null" ]
PaceNaN == [ kind |-> "NaN" ]
PaceInfinity == [ kind |-> "Infinity" ]
PaceMinusInfinity == [ kind |-> "-Infinity" ]
PaceNumber(n, d) == [ kind |-> "number", value |-> Rat(n, d) ]

(* Number.prototype.toString of a non-negative integer *)
RECURSIVE NumberToString(_)
NumberToString(n) ==
    LET digit == << "0", "1", "2", "3", "4", "5", "6", "7", "8", "9" >>[(n % 10) + 1]
    IN  IF n < 10 THEN << digit >> ELSE NumberToString(n \div 10) \o << digit >>

(* String.prototype.padStart(length, fill) *)
PadStart(text, length, fill) ==
    [k \in 1..(IF Len(text) < length THEN length - Len(text) ELSE 0) |-> fill] \o text

(* Math.floor(seconds / 60) and Math.round(seconds % 60) of a positive     *)
(* number (content.js:270-271)                                             *)
PaceMinutes(x) == x[1] \div (60 * x[2])

PaceSeconds(x) == RoundDiv(x[1] % (60 * x[2]), x[2])

(* formatPace (content.js:268-273) *)
formatPace(seconds) ==
    IF seconds.kind # "number" \/ seconds.value[1] <= 0
    THEN << "-", "-", ":", "-", "-" >>
    ELSE LET m == PaceMinutes(seconds.value)
             sec == PaceSeconds(seconds.value)
         IN  NumberToString(m) \o << ":" >> \o PadStart(NumberToString(sec), 2, "0")

----------------------------------------------------------------------------
(* State machine *)

(* no buffer is being decoded *)
NoFit ==
    /\ parser = NewFitParser(<< >>)
    /\ parsePc = "idle"
    /\ fitInput = << >>

(* no archive is being extracted *)
NoZip ==
    /\ zipBytes = << >>
    /\ zipInput = << >>
    /\ zipResult = None

(* no JSON document is being adapted *)
NoJson ==
    /\ jsonInput = << >>
    /\ jsonResult = None

(* formatPace is not being called *)
NoFormat ==
    /\ paceInput = << >>
    /\ paceText = None

(* the extension is not running *)
NoExtension ==
    /\ csrfToken = None
    /\ pageTasks = << >>
    /\ posted = << >>
    /\ location = None
    /\ currentActivityId = None
    /\ fitData = None
    /\ panel = None
    /\ analyzers = << >>
    /\ listeners = {}

NoRest == NoFormat /\ NoExtension

NoDecoding == NoFit /\ NoZip /\ NoJson /\ NoRest

InitUI ==
    /\ lapStats = << >>
    /\ called = FALSE
    /\ matched = << >>
    /\ allLapStats = << >>
    /\ shown = FALSE
    /\ checked = << >>
    /\ statsRows = << >>
    /\ statsText = "none"
    /\ errorText = ""

InitWindow ==
    /\ laps \in SeqsUpTo(LapsWindow, MaxLaps)
    /\ records \in SeqsUpTo(RecordsWindow, MaxRecords)
    /\ InitUI
    /\ NoDecoding

(* a direct call  computeLapStats(laps, records) *)
CallComputeLapStats ==
    /\ LET callbacks == LapCallbacks(laps, records)
       IN  /\ lapStats' = StatsOf(callbacks)
           /\ matched' = LocalsOf(callbacks)
    /\ called' = TRUE
    /\ laps' = LapsAfterCall(laps)
    /\ records' = RecordsAfterCall(records)
    /\ UNCHANGED <<allLapStats, shown, checked, statsRows, statsText, errorText>>
    /\ UNCHANGED decodingVars

NextCall == CallComputeLapStats

InitHR ==
    /\ laps \in SeqsUpTo(LapsHR, MaxLaps)
    /\ records \in SeqsUpTo(RecordsHR, MaxRecords)
    /\ InitUI
    /\ NoDecoding

SpecHR == InitHR /\ [][NextCall]_vars

InitSummary ==
    /\ laps \in SeqsUpTo(LapsSummary, MaxLaps)
    /\ records \in SeqsUpTo(RecordsSummary, MaxRecords)
    /\ InitUI
    /\ NoDecoding

SpecSummary == InitSummary /\ [][NextCall]_vars

InitPace ==
    /\ laps \in SeqsUpTo(LapsPace, MaxLaps)
    /\ records \in SeqsUpTo(RecordsPace, MaxRecords)
    /\ InitUI
    /\ NoDecoding

SpecPace == InitPace /\ [][NextCall]_vars

SpecWindow == InitWindow /\ [][NextCall]_vars

(* The lap selection UI over a loaded activity (fitData set) *)
Init ==
    /\ laps \in SeqsUpTo(LapsUI, MaxLaps)
    /\ records \in SeqsUpTo(RecordsUI, MaxRecords)
    /\ InitUI
    /\ NoDecoding

(* displayLaps (content.js:370-413) *)
DisplayLaps ==
    IF Len(laps) = 0
    THEN /\ errorText' = "No laps found in this activity."
         /\ UNCHANGED <<allLapStats, shown, checked, statsRows, statsText>>
         /\ UNCHANGED <<laps, records, lapStats, called, matched>>
         /\ UNCHANGED decodingVars
    ELSE /\ allLapStats' = computeLapStats(laps, records)
         /\ shown' = TRUE
         /\ checked' = [i \in 1..Len(laps) |-> TRUE]
         /\ UpdateStats(allLapStats', checked')
         /\ laps' = LapsAfterCall(laps)
         /\ records' = RecordsAfterCall(records)
         /\ UNCHANGED <<lapStats, called, matched, errorText>>
         /\ UNCHANGED decodingVars

(* a change event of the checkbox with data-index i-1 (content.js:400) *)
ToggleLap(i) ==
    /\ shown
    /\ i \in DOMAIN checked
    /\ checked' = [checked EXCEPT ![i] = ~@]
    /\ UpdateStats(allLapStats, checked')
    /\ UNCHANGED <<laps, records, lapStats, called, matched, allLapStats,
                   shown, errorText>>
    /\ UNCHANGED decodingVars

(* click on Select All (content.js:402-405) *)
SelectAll ==
    /\ shown
    /\ checked' = [i \in DOMAIN checked |-> TRUE]
    /\ UpdateStats(allLapStats, checked')
    /\ UNCHANGED <<laps, records, lapStats, called, matched, allLapStats,
                   shown, errorText>>
    /\ UNCHANGED decodingVars

(* click on Deselect All (content.js:406-409) *)
DeselectAll ==
    /\ shown
    /\ checked' = [i \in DOMAIN checked |-> FALSE]
    /\ UpdateStats(allLapStats, checked')
    /\ UNCHANGED <<laps, records, lapStats, called, matched, allLapStats,
                   shown, errorText>>
    /\ UNCHANGED decodingVars

Toggle == \E i \in DOMAIN checked : ToggleLap(i)

Next ==
    \/ DisplayLaps
    \/ Toggle
    \/ SelectAll
    \/ DeselectAll

Spec == Init /\ [][Next]_vars

----------------------------------------------------------------------------
(* FitParser.parse as a state machine over an encoded buffer *)

MaxFitRecords == 3

RECURSIVE Concat(_)
Concat(seqs) == IF seqs = << >> THEN << >> ELSE Head(seqs) \o Concat(Tail(seqs))

U16Bytes(n, littleEndian) ==
    IF littleEndian THEN << n % 256, n \div 256 >> ELSE << n \div 256, n % 256 >>

(* the file header: size, protocol, profile, payload length, signature,   *)
(* and the header CRC of the 14-byte form                                 *)
FileHeader(headerSize, payloadLen, sig) ==
    << headerSize, 16, 100, 0 >> \o U16Bytes(payloadLen, TRUE) \o << 0, 0 >> \o sig
        \o [k \in 1..(headerSize - 12) |-> 0]

FitSignature == << 46, 70, 73, 84 >>

FieldDef(num, size, baseType) == [ num |-> num, size |-> size, baseType |-> baseType ]

DefinitionRecord(localType, littleEndian, globalMsgNum, fields, devFields) ==
    << 64 + localType + (IF devFields = << >> THEN 0 ELSE 32), 0,
       IF littleEndian THEN 0 ELSE 1 >>
    \o U16Bytes(globalMsgNum, littleEndian)
    \o << Len(fields) >>
    \o Concat([k \in 1..Len(fields) |->
                 << fields[k].num, fields[k].size, fields[k].baseType >>])
    \o (IF devFields = << >> THEN << >>
        ELSE << Len(devFields) >>
             \o Concat([k \in 1..Len(devFields) |->
                          << devFields[k].num, devFields[k].size, 0 >>]))

DataRecord(localType, payload) == << localType >> \o payload

CompressedRecord(localType, timeOffset, payload) ==
    << 128 + 32 * localType + timeOffset >> \o payload

(* a file: header, the records, the file CRC; declared is the payload     *)
(* length the header announces and cut the number of bytes missing at     *)
(* the end of the buffer                                                  *)
FitFile(headerSize, sig, recs, declared, cut) ==
    LET all == FileHeader(headerSize, declared, sig) \o Concat(recs) \o << 0, 0 >>
    IN  SubSeq(all, 1, Len(all) - cut)

FitInput(headerSize, sig, recs, declared, cut) ==
    [ headerSize |-> headerSize, sig |-> sig, recs |-> recs,
      declared |-> declared, cut |-> cut ]

FitBytes(in) == FitFile(in.headerSize, in.sig, in.recs, in.declared, in.cut)

WellFramed(recs) == FitInput(12, FitSignature, recs, Len(Concat(recs)), 0)

(* no lap list is on display *)
LapIdle ==
    /\ laps = << >>
    /\ records = << >>
    /\ InitUI

(* parse() up to the record loop (fit-parser.js:70-71) *)
ParseStart ==
    /\ parsePc = "new"
    /\ parser' = ParseHeader(parser)
    /\ parsePc' = IF parser'.threw THEN "failed" ELSE "records"
    /\ UNCHANGED <<fitInput, lapVars, zipVars, jsonVars, restVars>>

(* one iteration of the record loop (fit-parser.js:72-79) *)
ParseLoop ==
    /\ parsePc = "records"
    /\ MoreRecords(parser)
    /\ parser' = ParseRecord(parser)
    /\ parsePc' = IF parser'.threw THEN "returned" ELSE "records"
    /\ UNCHANGED <<fitInput, lapVars, zipVars, jsonVars, restVars>>

(* the loop ends and parse returns this.messages (fit-parser.js:72,80) *)
ParseReturn ==
    /\ parsePc = "records"
    /\ ~MoreRecords(parser)
    /\ parsePc' = "returned"
    /\ UNCHANGED <<parser, fitInput, lapVars, zipVars, jsonVars, restVars>>

NextParse ==
    \/ ParseStart
    \/ ParseLoop
    \/ ParseReturn

(* parse() as a function of the buffer *)
RECURSIVE RunRecords(_)
RunRecords(p) ==
    IF p.threw \/ ~MoreRecords(p) THEN p ELSE RunRecords(ParseRecord(p))

Parse(bytes) ==
    LET h == ParseHeader(NewFitParser(bytes))
    IN  IF h.threw THEN h ELSE RunRecords(h)

InitParse(in) ==
    /\ fitInput = in
    /\ parser = NewFitParser(FitBytes(in))
    /\ parsePc = "new"
    /\ LapIdle
    /\ NoZip
    /\ NoJson
    /\ NoRest

(* Buffers about timestamps: record messages with an explicit 32-bit      *)
(* timestamp, and compressed-timestamp records of a heart rate            *)
TimestampDef == DefinitionRecord(0, TRUE, 20, << FieldDef(253, 4, 134) >>, << >>)

HeartRateDef == DefinitionRecord(1, TRUE, 20, << FieldDef(3, 1, 2) >>, << >>)

TimestampBytes ==
    { << 7, 202, 154, 59 >>, << 255, 255, 255, 127 >>, << 5, 0, 0, 128 >>,
      << 227, 255, 255, 255 >> }

TimeOffsets == {3, 7, 31}

TimestampRecords ==
    { DataRecord(0, b) : b \in TimestampBytes }
    \cup { CompressedRecord(1, o, << 150 >>) : o \in TimeOffsets }

InitTimestamps ==
    \E recs \in SeqsUpTo(TimestampRecords, MaxFitRecords) :
        InitParse(WellFramed(<< TimestampDef, HeartRateDef >> \o recs))

SpecTimestamps == InitTimestamps /\ [][NextParse]_vars

(* Buffers about invalid values: one definition of a record message with  *)
(* a field of the base type under test (as altitude, heart_rate or        *)
(* timestamp) followed by a uint8 heart_rate, then data records whose     *)
(* first field holds the type's invalid value, all ones, or a plain value *)
SentinelTypes == { t \in DOMAIN BASE_TYPES : IsSome(BASE_TYPES[t].invalid) }

SentinelFieldNums == {2, 3, 253}

SizeOfType(t) ==
    IF t \in {0, 1, 2, 7, 10} THEN 1 ELSE IF t \in {131, 132, 139} THEN 2 ELSE 4

(* the encoding of the invalid value of each base type of the FIT format *)
SentinelBytes(t, littleEndian) ==
    LET n == SizeOfType(t)
    IN  IF t \in {7, 10, 139, 140} THEN [k \in 1..n |-> 0]
        ELSE IF t \in {0, 2, 132, 134} THEN [k \in 1..n |-> 255]
        ELSE [k \in 1..n |->
                IF k = (IF littleEndian THEN n ELSE 1) THEN 127 ELSE 255]

SentinelDef(t, num, littleEndian) ==
    DefinitionRecord(0, littleEndian, 20,
                     << FieldDef(num, SizeOfType(t), t), FieldDef(3, 1, 2) >>, << >>)

SentinelPayloads(t, littleEndian) ==
    { SentinelBytes(t, littleEndian),
      [k \in 1..SizeOfType(t) |-> 255],
      SubSeq(<< 21, 1, 0, 0 >>, 1, SizeOfType(t)) }

SentinelRecords(t, littleEndian) ==
    { DataRecord(0, b \o << 150 >>) : b \in SentinelPayloads(t, littleEndian) }
    \cup { CompressedRecord(0, 9, b \o << 150 >>) : b \in SentinelPayloads(t, littleEndian) }

InitSentinels ==
    \E t \in SentinelTypes, num \in SentinelFieldNums, littleEndian \in BOOLEAN :
        \E recs \in SeqsUpTo(SentinelRecords(t, littleEndian), MaxFitRecords) :
            InitParse(WellFramed(<< SentinelDef(t, num, littleEndian) >> \o recs))

SpecSentinels == InitSentinels /\ [][NextParse]_vars

(* Buffers described record by record: a definition is given by what it   *)
(* declares, a data record by its local type, its header form and the     *)
(* byte that fills its payload; the payload has the length the latest     *)
(* definition of the local type asks for (none without a definition)      *)
DefinitionOf(localType, littleEndian, globalMsgNum, fields, devFields) ==
    [ kind |-> "definition", localType |-> localType, littleEndian |-> littleEndian,
      globalMsgNum |-> globalMsgNum, fields |-> fields, devFields |-> devFields ]

DataOf(localType, compressed, fill) ==
    [ kind |-> "data", localType |-> localType, compressed |-> compressed,
      fill |-> fill ]

DevFieldDef(num, size) == [ num |-> num, size |-> size ]

(* the index of the definition in force for record i, 0 if none *)
DefinitionFor(described, i) ==
    LET js == { j \in 1..(i - 1) :
                  /\ described[j].kind = "definition"
                  /\ described[j].localType = described[i].localType }
    IN  IF js = {} THEN 0 ELSE CHOOSE j \in js : \A k \in js : k <= j

PayloadLength(d) ==
    SumSeq([k \in 1..Len(d.fields) |-> d.fields[k].size])
    + SumSeq([k \in 1..Len(d.devFields) |-> d.devFields[k].size])

EncodeRecord(described, i) ==
    LET r == described[i]
    IN  IF r.kind = "definition"
        THEN DefinitionRecord(r.localType, r.littleEndian, r.globalMsgNum,
                              r.fields, r.devFields)
        ELSE LET j == DefinitionFor(described, i)
                 n == IF j = 0 THEN 0 ELSE PayloadLength(described[j])
                 payload == [k \in 1..n |-> r.fill]
             IN  IF r.compressed THEN CompressedRecord(r.localType, 9, payload)
                 ELSE DataRecord(r.localType, payload)

EncodeRecords(described) == [i \in 1..Len(described) |-> EncodeRecord(described, i)]

WellFormed(described) ==
    \A i \in 1..Len(described) :
        described[i].kind = "data" => DefinitionFor(described, i) # 0

Described(described, headerSize, sig, excess, cut) ==
    [ described |-> described, headerSize |-> headerSize, sig |-> sig,
      recs |-> EncodeRecords(described),
      declared |-> Len(Concat(EncodeRecords(described))) + excess, cut |-> cut ]

(* Well-formed buffers about the cursor: fields that are decoded, invalid,*)
(* or skipped (string, array, unknown base type), developer fields, both  *)
(* byte orders, a redefinition of a local type, both header sizes         *)
CursorDefinitions ==
    { DefinitionOf(0, TRUE, 20, << FieldDef(3, 1, 2), FieldDef(5, 4, 134) >>, << >>),
      DefinitionOf(0, TRUE, 20, << FieldDef(3, 1, 2) >>, << >>),
      DefinitionOf(1, FALSE, 19,
                   << FieldDef(9, 3, 7), FieldDef(15, 1, 2), FieldDef(7, 8, 134) >>,
                   << DevFieldDef(0, 2) >>),
      DefinitionOf(2, TRUE, 21, << FieldDef(253, 4, 134), FieldDef(0, 8, 142) >>,
                   << >>) }

CursorData ==
    { DataOf(t, FALSE, fill) : t \in {0, 1, 2}, fill \in {21, 255} }
    \cup { DataOf(t, TRUE, 21) : t \in {0, 1} }

HeaderSizes == {12, 14}

InitCursor ==
    \E described \in SeqsUpTo(CursorDefinitions \cup CursorData, MaxFitRecords),
       headerSize \in HeaderSizes :
        /\ WellFormed(described)
        /\ InitParse(Described(described, headerSize, FitSignature, 0, 0))

SpecCursor == InitCursor /\ [][NextParse]_vars

(* Buffers about failures: data records with and without a definition,    *)
(* buffers that end early, headers that announce more than there is, and  *)
(* headers with a wrong or missing signature                              *)
ErrorDefinitions ==
    { DefinitionOf(0, TRUE, 20, << FieldDef(3, 1, 2), FieldDef(5, 4, 134) >>, << >>),
      DefinitionOf(1, FALSE, 19, << FieldDef(15, 1, 2), FieldDef(9, 3, 7) >>,
                   << DevFieldDef(0, 2) >>) }

ErrorData ==
    { DataOf(t, FALSE, 21) : t \in {0, 1} } \cup { DataOf(0, TRUE, 21) }

Cuts == {0, 3, 5, 8, 14}

Excesses == {0, 4}

Signatures == { FitSignature, << 46, 102, 105, 116 >> }

InitErrors ==
    \E described \in SeqsUpTo(ErrorDefinitions \cup ErrorData, MaxFitRecords),
       sig \in Signatures, excess \in Excesses, cut \in Cuts :
        InitParse(Described(described, 12, sig, excess, cut))

SpecErrors == InitErrors /\ [][NextParse]_vars

(* Buffers about message kinds: definitions of one local type for the     *)
(* kinds the decoder names and for two it does not, and data records      *)
MessageKinds == {0, 18, 19, 20, 21, 23, 34, 49, 72}

KindRecords ==
    { DefinitionOf(0, TRUE, g, << FieldDef(253, 4, 134) >>, << >>) : g \in MessageKinds }
    \cup { DataOf(0, c, 21) : c \in BOOLEAN }

InitKinds ==
    \E described \in SeqsUpTo(KindRecords, MaxFitRecords) :
        InitParse(Described(described, 12, FitSignature, 0, 0))

SpecKinds == InitKinds /\ [][NextParse]_vars

(* Buffers about inherited timestamps: definitions of one local type with *)
(* a uint32 timestamp field or a uint32 field of another id, for two      *)
(* kinds with a profile and two without, and data records with plain and  *)
(* compressed-timestamp headers holding a value or the invalid value      *)
InheritKinds == {19, 20, 21, 49}

InheritRecords ==
    { DefinitionOf(0, TRUE, g, << FieldDef(num, 4, 134) >>, << >>) :
        g \in InheritKinds, num \in {3, 253} }
    \cup { DataOf(0, c, fill) : c \in BOOLEAN, fill \in {21, 255} }

InitInherit ==
    \E described \in SeqsUpTo(InheritRecords, MaxFitRecords) :
        InitParse(Described(described, 12, FitSignature, 0, 0))

SpecInherit == InitInherit /\ [][NextParse]_vars

----------------------------------------------------------------------------
(* extractFitFromZip over archives described entry by entry *)

U32Bytes(n) ==
    << n % 256, (n \div 256) % 256, (n \div 65536) % 256, n \div 16777216 >>

Filler(n, b) == [k \in 1..n |-> b]

(* raw deflate of a payload as one final stored block *)
DeflateStored(payload) ==
    << 1 >> \o U16Bytes(Len(payload), TRUE) \o U16Bytes(65535 - Len(payload), TRUE)
        \o payload

(* an entry: its name, the lengths of its extra fields (local and central) *)
(* and of its comment, its method, its payload and its central signature  *)
ZipEntry(name, localExtraLen, extraLen, commentLen, method, payload, sig) ==
    [ name |-> name, localExtraLen |-> localExtraLen, extraLen |-> extraLen,
      commentLen |-> commentLen, method |-> method, payload |-> payload,
      sig |-> sig,
      data |-> IF method = 8 THEN DeflateStored(payload) ELSE payload ]

LocalFile(e) ==
    << 80, 75, 3, 4, 20, 0, 0, 0 >> \o U16Bytes(e.method, TRUE) \o Filler(8, 0)
        \o U32Bytes(Len(e.data)) \o U32Bytes(Len(e.payload))
        \o U16Bytes(Len(e.name), TRUE) \o U16Bytes(e.localExtraLen, TRUE)
        \o e.name \o Filler(e.localExtraLen, 1) \o e.data

CentralEntry(e, localOffset) ==
    e.sig \o << 20, 0, 20, 0, 0, 0 >> \o U16Bytes(e.method, TRUE) \o Filler(8, 0)
        \o U32Bytes(Len(e.data)) \o U32Bytes(Len(e.payload))
        \o U16Bytes(Len(e.name), TRUE) \o U16Bytes(e.extraLen, TRUE)
        \o U16Bytes(e.commentLen, TRUE) \o Filler(8, 0) \o U32Bytes(localOffset)
        \o e.name \o Filler(e.extraLen, 2) \o Filler(e.commentLen, 32)

EndOfCentralDirectory(sig, declaredEntries, cdSize, cdOffset, comment) ==
    sig \o Filler(4, 0) \o U16Bytes(declaredEntries, TRUE)
        \o U16Bytes(declaredEntries, TRUE) \o U32Bytes(cdSize) \o U32Bytes(cdOffset)
        \o U16Bytes(Len(comment), TRUE) \o comment

(* the archive: local files, central directory, end record announcing     *)
(* declaredEntries entries, then trailing bytes that belong to nothing    *)
Archive(entries, declaredEntries, eocdSig, comment, trailing) ==
    LET locals == [k \in 1..Len(entries) |-> LocalFile(entries[k])]
        LocalOffset(k) == Len(Concat(SubSeq(locals, 1, k - 1)))
        central == Concat([k \in 1..Len(entries) |->
                             CentralEntry(entries[k], LocalOffset(k))])
    IN  Concat(locals) \o central
        \o EndOfCentralDirectory(eocdSig, declaredEntries, Len(central),
                                 Len(Concat(locals)), comment)
        \o trailing

ZipInput(entries, declaredEntries, eocdSig, comment, trailing) ==
    [ entries |-> entries, declaredEntries |-> declaredEntries, eocdSig |-> eocdSig,
      comment |-> comment, trailing |-> trailing ]

InitExtract(in) ==
    /\ zipInput = in
    /\ zipBytes = Archive(in.entries, in.declaredEntries, in.eocdSig, in.comment,
                          in.trailing)
    /\ zipResult = None
    /\ LapIdle
    /\ NoFit
    /\ NoJson
    /\ NoRest

(* the call extractFitFromZip(zipBytes), to its return or its throw *)
ExtractFitFromZip ==
    /\ zipResult = None
    /\ zipResult' = Some(extractFitFromZip(zipBytes))
    /\ UNCHANGED <<zipBytes, zipInput, lapVars, fitVars, jsonVars, restVars>>

NextExtract == ExtractFitFromZip

(* Valid single-entry archives with a stored .fit entry *)
FitNames ==
    { << 97, 46, 102, 105, 116 >>, << 46, 102, 105, 116 >>,
      << 65, 67, 84, 95, 49, 46, 70, 73, 84 >> }

Payloads == { << 14, 16, 7 >>, << 80, 75, 5, 6 >>, << >> }

MaxCommentLen == EocdWindow - 22

ArchiveComments ==
    { << >>, Filler(3, 32), Filler(MaxCommentLen, 32),
      EocdSignature \o Filler(18, 0) }

InitStored ==
    \E name \in FitNames, localExtraLen \in {0, 7}, extraLen \in {0, 4},
       commentLen \in {0, 2}, payload \in Payloads, comment \in ArchiveComments :
        InitExtract(ZipInput(
            << ZipEntry(name, localExtraLen, extraLen, commentLen, 0, payload,
                        CentralSignature) >>,
            1, EocdSignature, comment, << >>))

SpecStored == InitStored /\ [][NextExtract]_vars

(* Archives of up to MaxZipEntries entries: names with and without the    *)
(* extension, methods 0, 8 and another, entries with a wrong central      *)
(* signature, end records that announce fewer or more entries than there  *)
(* are or carry a wrong signature, junk after the archive; and archives   *)
(* whose end record lies at the far edge of the search window or beyond   *)
MaxZipEntries == 2

OtherNames == { << 102, 105, 116 >>, << 97, 46, 102, 105, 116, 46, 116, 120, 116 >> }

MixedCaseFitName == << 65, 46, 70, 105, 116 >>

Methods == {0, 8, 12}

CentralSignatures == { CentralSignature, << 80, 75, 1, 3 >> }

EocdSignatures == { EocdSignature, << 80, 75, 6, 6 >> }

ZipEntries ==
    { ZipEntry(MixedCaseFitName, 3, 2, 1, method, << 14, 16, 7 >>, sig) :
        method \in Methods, sig \in CentralSignatures }
    \cup { ZipEntry(name, 3, 2, 1, 0, << 9 >>, sig) :
        name \in OtherNames, sig \in CentralSignatures }

InitZip ==
    \/ \E entries \in SeqsUpTo(ZipEntries, MaxZipEntries),
          delta \in {-1, 0, 1}, eocdSig \in EocdSignatures,
          trailing \in { << >>, Filler(3, 0) } :
            /\ Len(entries) + delta >= 0
            /\ InitExtract(ZipInput(entries, Len(entries) + delta, eocdSig, << >>,
                                    trailing))
    \/ \E method \in Methods, trailing \in { << >>, << 0 >> } :
            InitExtract(ZipInput(
                << ZipEntry(MixedCaseFitName, 0, 0, 0, method, << 14, 16, 7 >>,
                            CentralSignature) >>,
                1, EocdSignature, Filler(MaxCommentLen, 32), trailing))

SpecZip == InitZip /\ [][NextExtract]_vars

----------------------------------------------------------------------------
(* parseJsonActivity over described documents *)

MaxJsonLaps == 2

MaxJsonRows == 3

InitAdapt(doc) ==
    /\ jsonInput = doc
    /\ jsonResult = None
    /\ LapIdle
    /\ NoFit
    /\ NoZip
    /\ NoRest

(* the call parseJsonActivity(jsonStr), to its return or its throw *)
ParseJsonActivity ==
    /\ jsonResult = None
    /\ jsonResult' = Some(parseJsonActivity(jsonInput))
    /\ UNCHANGED <<jsonInput, lapVars, fitVars, zipVars, restVars>>

NextAdapt == ParseJsonActivity

Split(startTimeGMT, startTimeInSeconds, duration, elapsedDuration, distance,
      averageHR, maxHR) ==
    [ startTimeGMT |-> startTimeGMT, startTimeInSeconds |-> startTimeInSeconds,
      duration |-> duration, elapsedDuration |-> elapsedDuration,
      distance |-> distance, averageHR |-> averageHR, averageHeartRate |-> None,
      maxHR |-> maxHR, maxHeartRate |-> None, averageSpeed |-> None ]

Row(values) == [ metrics |-> values ]

(* Documents about the top-level structure *)
SplitMenu ==
    { Split(Some(1500), None, Some(60), None, Some(400), Some(150), Some(170)),
      Split(None, Some(10), None, Some(30), None, None, None),
      Split(None, None, Some(0), Some(45), Some(0), Some(0), None) }

DetailsMenu ==
    { Details(None, None, None),
      Details(Some(<< Descriptor(0, "directTimestamp") >>),
              Some(<< Row(Some(<< Some(2500) >>)) >>), None) }

SplitsMenu ==
    { None, Some(SplitsObject(None)) }
    \cup { Some(SplitsObject(Some(ls))) : ls \in SeqsUpTo(SplitMenu, MaxJsonLaps) }
    \cup { Some(SplitsArray(ls)) : ls \in SeqsUpTo(SplitMenu, MaxJsonLaps) }

InitStructure ==
    \E doc \in {Unparsable, NullDocument}
               \cup { Document(d, sp) : d \in {None} \cup { Some(x) : x \in DetailsMenu },
                                        sp \in SplitsMenu } :
        InitAdapt(doc)

SpecStructure == InitStructure /\ [][NextAdapt]_vars

(* Documents about the rows: descriptor maps with and without a timestamp *)
(* column, rows that are short, lack their values or hold null            *)
DescriptorMenu ==
    { None,
      Some(<< Descriptor(0, "directTimestamp"), Descriptor(1, "directHeartRate") >>),
      Some(<< Descriptor(1, "directTimestamp"), Descriptor(0, "directDistance") >>),
      Some(<< Descriptor(0, "directHeartRate"), Descriptor(1, "directSpeed") >>),
      Some(<< Descriptor(0, "directTimestamp"), Descriptor(0, "directHeartRate") >>),
      Some(<< Descriptor(2, "directTimestamp"), Descriptor(0, "sumDuration") >>) }

RowMenu ==
    { Row(None), Row(Some(<< Some(1000), Some(150) >>)),
      Row(Some(<< Some(2500), None >>)), Row(Some(<< None, Some(140) >>)),
      Row(Some(<< Some(500) >>)), Row(Some(<< Some(120), Some(1), Some(3000) >>)) }

InitRows ==
    \E descriptors \in DescriptorMenu, rows \in SeqsUpTo(RowMenu, MaxJsonRows),
       viaPolyline \in BOOLEAN :
        InitAdapt(Document(
            Some(IF viaPolyline
                 THEN Details(descriptors, None, Some([ metrics |-> Some(rows) ]))
                 ELSE Details(descriptors, Some(rows), None)),
            None))

SpecRows == InitRows /\ [][NextAdapt]_vars

----------------------------------------------------------------------------
(* formatPace over numbers of seconds in units of 1/PaceUnitsPerSecond     *)

PaceUnitsPerSecond == 10

MaxPaceUnits == 1250

PaceInputs ==
    { PaceNull, PaceNaN, PaceInfinity, PaceMinusInfinity }
    \cup { PaceNumber(n, PaceUnitsPerSecond) : n \in (-2)..MaxPaceUnits }
    \cup { PaceNumber(3600 * PaceUnitsPerSecond - k, PaceUnitsPerSecond) : k \in 0..6 }

InitFormat ==
    /\ paceInput \in PaceInputs
    /\ paceText = None
    /\ LapIdle
    /\ NoFit
    /\ NoZip
    /\ NoJson
    /\ NoExtension

(* the call formatPace(seconds) *)
FormatPace ==
    /\ paceText = None
    /\ paceText' = Some(formatPace(paceInput))
    /\ UNCHANGED <<paceInput, lapVars, fitVars, zipVars, jsonVars, extensionVars>>

NextFormat == FormatPace

SpecFormat == InitFormat /\ [][NextFormat]_vars

----------------------------------------------------------------------------------------------------------------------------------------
(* The page script (src/unnamed/part_000) and the content script's         *)
(* fetchActivityData, openAnalyzer and checkForActivity on one page.       *)
(*                                                                         *)
(* A step runs a listener or a continuation from one await to the next.    *)
(* Downloaded data is kept as the activity it belongs to and its form;     *)
(* the requestId of a request is the number of the openAnalyzer call that  *)
(* made it (the random ids of content.js:93 are taken to be distinct);     *)
(* statsOf in the panel is the activity whose laps allLapStats and the     *)
(* lap list were computed from.                                            *)

MaxCalls == 2

TokenRounds == 10

Activities == {"a", "b"}

Tokens == {"t1", "t2"}

FetchRequest(activityId, requestId) ==
    [ type |-> "GLA_FETCH_REQUEST", activityId |-> activityId, requestId |-> requestId ]

FetchResponse(requestId, format, data) ==
    [ type |-> "GLA_FETCH_RESPONSE", requestId |-> requestId, success |-> TRUE,
      format |-> format, data |-> data ]

FetchFailure(requestId, error) ==
    [ type |-> "GLA_FETCH_RESPONSE", requestId |-> requestId, success |-> FALSE,
      error |-> error ]

(* what the server sends for an activity: form is "fit", "fit-nolaps",     *)
(* "zip", "badzip" (an archive extractFitFromZip rejects) or "other" for   *)
(* a download, "json" or "badjson" (a document parseJsonActivity rejects)  *)
(* for the two API documents                                               *)
Data(activityId, form) == [ activity |-> activityId, form |-> form ]

(* garminFetch(path) (part_000:28-39): the header carries csrfToken if set *)
garminFetch(task, path) ==
    [ task EXCEPT !.fetched = Append(@, [ path |-> path, token |-> csrfToken ]) ]

(* window.postMessage of a response by the listener run *)
PostResponse(task) == [ task EXCEPT !.pc = "done", !.responses = @ + 1 ]

(* the locals of one run of the page script's listener, with what it has  *)
(* fetched and how many responses it has posted                            *)
PageTask(activityId) ==
    [ activityId |-> activityId, pc |-> "token", i |-> 0,
      fitResp |-> "", dResp |-> "", sResp |-> "",
      fetched |-> << >>, responses |-> 0 ]

AfterTokenWaitNoTest(requestId, task) ==
    /\ pageTasks' = SetKey(pageTasks, requestId,
                           garminFetch([ task EXCEPT !.pc = "fit", !.i = 0 ], "download"))
    /\ UNCHANGED posted

(* the listener from the token test on (part_000:53-60), the loop's i     *)
(* gone with the loop: it throws without a token, else requests the        *)
(* download                                                                *)
AfterTokenWait(requestId, task) ==
    IF csrfToken = None
    THEN /\ pageTasks' = SetKey(pageTasks, requestId,
                                PostResponse([ task EXCEPT !.i = 0 ]))
         /\ posted' = Append(posted, FetchFailure(requestId, "Could not capture CSRF token"))
    ELSE /\ pageTasks' = SetKey(pageTasks, requestId,
                                garminFetch([ task EXCEPT !.pc = "fit", !.i = 0 ], "download"))
         /\ UNCHANGED posted

(* the message listener of the page script up to its first await           *)
(* (part_000:42-60), entered for the request msg                           *)
HandleRequest(msg) ==
    IF csrfToken = None
    THEN pageTasks' = SetKey(pageTasks, msg.requestId, PageTask(msg.activityId))
    ELSE pageTasks' = SetKey(pageTasks, msg.requestId,
                             garminFetch([ PageTask(msg.activityId) EXCEPT !.pc = "fit" ],
                                         "download"))

(* XMLHttpRequest.prototype.setRequestHeader('Connect-Csrf-Token', value)  *)
(* called by the page with a non-empty value (part_000:11-12); the page    *)
(* moves from the token t1 to t2, not back                                 *)
CaptureToken ==
    /\ \E value \in Tokens :
          /\ csrfToken # Some(value)
          /\ csrfToken # Some("t2")
          /\ csrfToken' = Some(value)
    /\ UNCHANGED <<pageTasks, posted, contentVars>>
    /\ UNCHANGED <<lapVars, fitVars, zipVars, jsonVars, formatVars>>

(* a 500 ms timer of the wait loop fires (part_000:51) *)
TokenRound ==
    /\ \E requestId \in DOMAIN pageTasks :
          LET task == pageTasks[requestId]
          IN  /\ task.pc = "token"
              /\ IF task.i + 1 < TokenRounds /\ csrfToken = None
                 THEN /\ pageTasks' = SetKey(pageTasks, requestId,
                                             [ task EXCEPT !.i = @ + 1 ])
                      /\ UNCHANGED posted
                 ELSE AfterTokenWait(requestId, [ task EXCEPT !.i = @ + 1 ])
    /\ UNCHANGED <<csrfToken, contentVars>>
    /\ UNCHANGED <<lapVars, fitVars, zipVars, jsonVars, formatVars>>

FitUsableIgnoringHtml(resp) == resp \in {"ok", "html"}

(* fitResp.ok && !fitCt.includes('html') (part_000:64) *)
FitUsable(resp) == resp = "ok"

(* the download request completes (part_000:60-79): resp is "ok" (OK, not  *)
(* HTML), "html" (OK with an HTML content type), "notOk", or "failed" when *)
(* fetch rejects                                                           *)
FitResponse ==
    /\ \E requestId \in DOMAIN pageTasks, resp \in {"ok", "html", "notOk", "failed"} :
          LET task == [ pageTasks[requestId] EXCEPT !.fitResp = resp ]
          IN  /\ pageTasks[requestId].pc = "fit"
              /\ IF resp # "failed" /\ FitUsable(resp)
                 THEN /\ pageTasks' = SetKey(pageTasks, requestId,
                                             [ task EXCEPT !.pc = "body" ])
                      /\ UNCHANGED posted
                 ELSE IF resp = "failed"
                 THEN /\ pageTasks' = SetKey(pageTasks, requestId, PostResponse(task))
                      /\ posted' = Append(posted, FetchFailure(requestId, "fetch failed"))
                 ELSE /\ pageTasks' = SetKey(pageTasks, requestId,
                            garminFetch(garminFetch([ task EXCEPT !.pc = "json" ],
                                                    "details"), "splits"))
                      /\ UNCHANGED posted
    /\ UNCHANGED <<csrfToken, contentVars>>
    /\ UNCHANGED <<lapVars, fitVars, zipVars, jsonVars, formatVars>>

DownloadForms == {"fit", "fit-nolaps", "zip", "badzip", "other"}

(* fitResp.arrayBuffer() settles (part_000:65-71): the body arrives in one *)
(* of the forms, or the read fails                                        *)
FitBody ==
    /\ \E requestId \in DOMAIN pageTasks, body \in DownloadForms \cup {"failed"} :
          LET task == pageTasks[requestId]
          IN  /\ task.pc = "body"
              /\ pageTasks' = SetKey(pageTasks, requestId, PostResponse(task))
              /\ posted' = Append(posted,
                    IF body = "failed"
                    THEN FetchFailure(requestId, "fetch failed")
                    ELSE FetchResponse(requestId, "binary", Data(task.activityId, body)))
    /\ UNCHANGED <<csrfToken, contentVars>>
    /\ UNCHANGED <<lapVars, fitVars, zipVars, jsonVars, formatVars>>

(* Promise.all of the two API requests settles (part_000:76-87): each      *)
(* response is "ok" or "notOk", or its fetch "failed"                      *)
JsonResponses ==
    /\ \E requestId \in DOMAIN pageTasks, d \in {"ok", "notOk", "failed"},
          sp \in {"ok", "notOk", "failed"} :
          LET task == pageTasks[requestId]
              got == [ task EXCEPT !.dResp = d, !.sResp = sp ]
          IN  /\ task.pc = "json"
              /\ IF d = "failed" \/ sp = "failed"
                 THEN /\ pageTasks' = SetKey(pageTasks, requestId, PostResponse(got))
                      /\ posted' = Append(posted, FetchFailure(requestId, "fetch failed"))
                 ELSE IF d # "ok" \/ sp # "ok"
                 THEN /\ pageTasks' = SetKey(pageTasks, requestId, PostResponse(got))
                      /\ posted' = Append(posted, FetchFailure(requestId, "API failed"))
                 ELSE /\ pageTasks' = SetKey(pageTasks, requestId,
                                             [ got EXCEPT !.pc = "jsonBody" ])
                      /\ UNCHANGED posted
    /\ UNCHANGED <<csrfToken, contentVars>>
    /\ UNCHANGED <<lapVars, fitVars, zipVars, jsonVars, formatVars>>

(* dResp.json() and sResp.json() settle (part_000:89-95) *)
JsonBodies ==
    /\ \E requestId \in DOMAIN pageTasks, body \in {"json", "badjson", "failed"} :
          LET task == pageTasks[requestId]
          IN  /\ task.pc = "jsonBody"
              /\ pageTasks' = SetKey(pageTasks, requestId, PostResponse(task))
              /\ posted' = Append(posted,
                    IF body = "failed"
                    THEN FetchFailure(requestId, "fetch failed")
                    ELSE FetchResponse(requestId, "json", Data(task.activityId, body)))
    /\ UNCHANGED <<csrfToken, contentVars>>
    /\ UNCHANGED <<lapVars, fitVars, zipVars, jsonVars, formatVars>>

(* createPanel (content.js:302-343): the panel as its innerHTML shows it *)
NewPanel ==
    [ loading |-> TRUE, error |-> FALSE, laps |-> FALSE, output |-> FALSE,
      statsOf |-> None ]

createPanel(p) == IF p # None THEN p ELSE Some(NewPanel)

(* showLoading, showError (content.js:345-368): nothing without elements *)
showLoading(p) ==
    IF p = None THEN None
    ELSE Some([ Val(p) EXCEPT !.loading = TRUE, !.error = FALSE, !.laps = FALSE,
                              !.output = FALSE ])

showError(p) ==
    IF p = None THEN None
    ELSE Some([ Val(p) EXCEPT !.loading = FALSE, !.error = TRUE ])

(* what FitParser.parse or parseJsonActivity makes of downloaded data *)
Parsed(data) == [ activity |-> data.activity, laps |-> data.form # "fit-nolaps" ]

(* displayLaps (content.js:370-413) on the parsed data in fitData: it      *)
(* throws when the panel's elements are gone                               *)
displayLaps(p, parsed) ==
    IF p = None THEN [ panel |-> None, threw |-> TRUE ]
    ELSE LET q == Some([ Val(p) EXCEPT !.loading = FALSE, !.laps = TRUE, !.output = TRUE ])
         IN  IF ~parsed.laps
             THEN [ panel |-> showError(q), threw |-> FALSE ]
             ELSE [ panel |-> Some([ Val(q) EXCEPT !.statsOf = Some(parsed.activity) ]),
                    threw |-> FALSE ]

(* fitData = <parsed data>; displayLaps() inside the try of openAnalyzer   *)
(* (content.js:464, 483, 487-491)                                          *)
StoreAndDisplay(p, data) ==
    /\ fitData' = Some(Parsed(data))
    /\ panel' = LET r == displayLaps(p, Parsed(data))
                IN  IF r.threw THEN showError(r.panel) ELSE r.panel

(* a call of openAnalyzer: where it stands, the activity it asked for,    *)
(* the archive it is extracting, how often its promise was settled        *)
Analyzer(pc, activityId) ==
    [ pc |-> pc, activityId |-> activityId, data |-> None, settled |-> 0 ]

(* a click on the button: openAnalyzer up to its await, with the call of  *)
(* fetchActivityData (content.js:448-460, 91-107)                          *)
OpenAnalyzer ==
    /\ currentActivityId # None
    /\ Len(analyzers) < MaxCalls
    /\ IF fitData # None
       THEN /\ panel' = displayLaps(createPanel(panel), Val(fitData)).panel
            /\ analyzers' = Append(analyzers, Analyzer("done", Val(currentActivityId)))
            /\ UNCHANGED <<listeners, posted>>
       ELSE /\ panel' = showLoading(createPanel(panel))
            /\ analyzers' = Append(analyzers, Analyzer("fetching", Val(currentActivityId)))
            /\ listeners' = listeners \cup {Len(analyzers) + 1}
            /\ posted' = Append(posted, FetchRequest(Val(currentActivityId),
                                                         Len(analyzers) + 1))
    /\ UNCHANGED <<location, currentActivityId, fitData, pageVars>>
    /\ UNCHANGED <<lapVars, fitVars, zipVars, jsonVars, formatVars>>

MatchesAnyResponse(msg, requestId) == msg.type = "GLA_FETCH_RESPONSE"

(* the filter of the handler installed by fetchActivityData for requestId *)
(* (content.js:95-97)                                                      *)
Matches(msg, requestId) ==
    /\ msg.type = "GLA_FETCH_RESPONSE"
    /\ msg.requestId = requestId

(* the handler of the call k of fetchActivityData takes the response msg  *)
(* and openAnalyzer goes on to its end or to the await of                  *)
(* extractFitFromZip (content.js:98-104, 462-491)                          *)
HandleResponse(msg, k) ==
    LET settled == [ analyzers EXCEPT ![k].settled = @ + 1 ]
        Finish == analyzers' = [ settled EXCEPT ![k].pc = "done" ]
    IN  /\ listeners' = listeners \ {k}
        /\ IF ~msg.success
           THEN /\ panel' = showError(panel)
                /\ Finish
                /\ UNCHANGED fitData
           ELSE IF msg.format = "json"
           THEN IF msg.data.form = "badjson"
                THEN /\ panel' = showError(showLoading(panel))
                     /\ Finish
                     /\ UNCHANGED fitData
                ELSE /\ StoreAndDisplay(showLoading(panel), msg.data)
                     /\ Finish
           ELSE IF msg.data.form \in {"zip", "badzip"}
           THEN /\ panel' = showLoading(panel)
                /\ analyzers' = [ settled EXCEPT ![k].pc = "extracting",
                                                 ![k].data = Some(msg.data) ]
                /\ UNCHANGED fitData
           ELSE IF msg.data.form = "other"
           THEN /\ panel' = showError(panel)
                /\ Finish
                /\ UNCHANGED fitData
           ELSE /\ StoreAndDisplay(showLoading(panel), msg.data)
                /\ Finish

(* the promise of extractFitFromZip settles and openAnalyzer goes on to   *)
(* its end (content.js:473, 481-491)                                       *)
ExtractDone ==
    /\ \E k \in DOMAIN analyzers :
          /\ analyzers[k].pc = "extracting"
          /\ analyzers' = [ analyzers EXCEPT ![k].pc = "done", ![k].data = None ]
          /\ IF Val(analyzers[k].data).form = "badzip"
             THEN /\ panel' = showError(panel)
                  /\ UNCHANGED fitData
             ELSE StoreAndDisplay(showLoading(panel), Val(analyzers[k].data))
    /\ UNCHANGED <<location, currentActivityId, listeners, posted, pageVars>>
    /\ UNCHANGED <<lapVars, fitVars, zipVars, jsonVars, formatVars>>

(* the oldest posted message is dispatched to the listeners of the        *)
(* window: the page script's listener takes a request, the installed       *)
(* handler of fetchActivityData with the same requestId takes a response   *)
(* (part_000:42-43, content.js:94-97)                                      *)
DeliverMessage ==
    /\ posted # << >>
    /\ posted' = Tail(posted)
    /\ LET msg == Head(posted)
       IN  IF msg.type = "GLA_FETCH_REQUEST"
           THEN /\ HandleRequest(msg)
                /\ UNCHANGED <<csrfToken, contentVars>>
           ELSE IF \E k \in listeners : Matches(msg, k)
           THEN /\ \E k \in listeners :
                      /\ Matches(msg, k)
                      /\ HandleResponse(msg, k)
                /\ UNCHANGED <<location, currentActivityId, pageVars>>
           ELSE UNCHANGED <<pageVars, contentVars>>
    /\ UNCHANGED <<lapVars, fitVars, zipVars, jsonVars, formatVars>>

(* the single-page application moves to another activity or off activities *)
Navigate ==
    /\ \E id \in {None} \cup { Some(a) : a \in Activities } :
          /\ id # location
          /\ location' = id
    /\ UNCHANGED <<currentActivityId, fitData, panel, analyzers, listeners>>
    /\ UNCHANGED <<posted, pageVars>>
    /\ UNCHANGED <<lapVars, fitVars, zipVars, jsonVars, formatVars>>

(* checkForActivity (content.js:494-517), run every 1.5 s; allLapStats is *)
(* already empty here and goes with the panel's statsOf                    *)
CheckForActivity ==
    /\ location # currentActivityId
    /\ currentActivityId' = location
    /\ fitData' = None
    /\ panel' = None
    /\ UNCHANGED <<location, analyzers, listeners, posted, pageVars>>
    /\ UNCHANGED <<lapVars, fitVars, zipVars, jsonVars, formatVars>>

(* the page is open on activity a: the page script has run, the content   *)
(* script has run its first checkForActivity                               *)
InitExtension ==
    /\ csrfToken = None
    /\ pageTasks = << >>
    /\ posted = << >>
    /\ location = Some("a")
    /\ currentActivityId = Some("a")
    /\ fitData = None
    /\ panel = None
    /\ analyzers = << >>
    /\ listeners = {}
    /\ LapIdle
    /\ NoFit
    /\ NoZip
    /\ NoJson
    /\ NoFormat

NextFetch ==
    \/ CaptureToken
    \/ OpenAnalyzer
    \/ DeliverMessage
    \/ TokenRound
    \/ FitResponse
    \/ FitBody
    \/ JsonResponses
    \/ JsonBodies
    \/ ExtractDone

SpecFetch == InitExtension /\ [][NextFetch]_vars

(* the same with every due timer firing, every network call settling and  *)
(* every posted message dispatched                                         *)
SpecFetchLive ==
    /\ SpecFetch
    /\ WF_vars(DeliverMessage)
    /\ WF_vars(TokenRound)
    /\ WF_vars(FitResponse)
    /\ WF_vars(FitBody)
    /\ WF_vars(JsonResponses)
    /\ WF_vars(JsonBodies)

(* the page has already sent a request of its own with a token, and the   *)
(* user moves between activities while analyzer calls are under way        *)
InitPage ==
    /\ csrfToken = Some("t1")
    /\ pageTasks = << >>
    /\ posted = << >>
    /\ location = Some("a")
    /\ currentActivityId = Some("a")
    /\ fitData = None
    /\ panel = None
    /\ analyzers = << >>
    /\ listeners = {}
    /\ LapIdle
    /\ NoFit
    /\ NoZip
    /\ NoJson
    /\ NoFormat

NextPage ==
    \/ OpenAnalyzer
    \/ DeliverMessage
    \/ FitResponse
    \/ FitBody
    \/ JsonResponses
    \/ JsonBodies
    \/ ExtractDone
    \/ Navigate
    \/ CheckForActivity

SpecPage == InitPage /\ [][NextPage]_vars

----------------
(* Properties of computeLapStats *)

(* what a lap summary declares, read without the code's helpers *)
DeclaredDistance(lap) ==
    IF lap.total_distance = None THEN 0 ELSE lap.total_distance[1]

(* start_i: the sum of total_distance of the laps before lap i *)
ClaimStart(i) == SumSeq([k \in 1..(i - 1) |-> DeclaredDistance(laps[k])])
ClaimEnd(i) == ClaimStart(i) + DeclaredDistance(laps[i])

(* the references, in input order, of the records satisfying Test *)
RefsWhere(Test(_)) == SelectSeq([j \in 1..Len(records) |-> j], Test)

C2_DistanceWindow ==
    called =>
        \A i \in 1..Len(laps) :
            /\ Range(matched[i].byDistance) =
                  { j \in 1..Len(records) :
                      /\ records[j].distance # None
                      /\ ClaimStart(i) - 10 * DistUnitsPerMeter
                            <= records[j].distance[1]
                      /\ records[j].distance[1]
                            <= ClaimEnd(i) + 10 * DistUnitsPerMeter }
            /\ Cardinality(Range(matched[i].byDistance))
                  = Len(matched[i].byDistance)

(* a record 0.1 m inside end_1 + 10 m is matched to lap 1, one 0.1 m        *)
(* outside is not, and lap 2 matches the latter by its own window           *)
C2_Witness ==
    /\ called
    /\ Len(laps) = 2
    /\ Len(records) = 2
    /\ DeclaredDistance(laps[1]) > 0
    /\ records[1].distance = Some(ClaimEnd(1) + 10 * DistUnitsPerMeter + 1)
    /\ records[2].distance = Some(ClaimEnd(1) + 10 * DistUnitsPerMeter - 1)
    /\ matched[1].byDistance = << 2 >>
    /\ matched[2].byDistance = << 2, 1 >>

(* C3: the timestamp fallback is all-or-nothing: lapRecords are the records *)
(* with lap.start_time <= timestamp <= lap.timestamp iff distance matching  *)
(* selected nothing and the lap has both timestamps; otherwise lapRecords   *)
(* are exactly the distance-matched records.                                *)
C3_FallbackAllOrNothing ==
    called =>
        \A i \in 1..Len(laps) :
            IF /\ matched[i].byDistance = << >>
               /\ laps[i].start_time # None
               /\ laps[i].timestamp # None
            THEN matched[i].lapRecords =
                   RefsWhere(LAMBDA j :
                       /\ records[j].timestamp # None
                       /\ laps[i].start_time[1] <= records[j].timestamp[1]
                       /\ records[j].timestamp[1] <= laps[i].timestamp[1])
            ELSE matched[i].lapRecords = matched[i].byDistance

(* lap 1 matches nothing by distance and takes both records by timestamp;   *)
(* lap 2 matches record 2 by distance and does not take record 1, which is  *)
(* inside its timestamp window                                              *)
C3_Witness ==
    /\ called
    /\ Len(laps) = 2
    /\ Len(records) = 2
    /\ matched[1].byDistance = << >>
    /\ matched[1].lapRecords = << 1, 2 >>
    /\ records[2].distance # None
    /\ matched[2].lapRecords = << 2 >>
    /\ laps[2].start_time # None
    /\ laps[2].timestamp # None
    /\ records[1].timestamp = laps[2].start_time

(* the matched records of lap i that carry a present, positive heart rate *)
ClaimHrRefs(i) ==
    { j \in Range(matched[i].lapRecords) :
        records[j].heart_rate # None /\ records[j].heart_rate[1] > 0 }

RECURSIVE SumHr(_)
SumHr(S) ==
    IF S = {} THEN 0
    ELSE LET j == CHOOSE x \in S : TRUE
         IN  records[j].heart_rate[1] + SumHr(S \ {j})

(* r is q rounded to the nearest integer (halves up), for q = n / d, d > 0 *)
IsRounded(r, n, d) == 2 * d * r <= 2 * n + d /\ 2 * n + d < 2 * d * r + 2 * d

(* C4: for a lap with heart-rate-bearing matched records, minHR and maxHR   *)
(* are the minimum and maximum and avgHR the rounded mean over exactly      *)
(* those records; records with heart_rate absent or 0 never contribute, so  *)
(* minHR is never 0, and minHR <= avgHR <= maxHR.                           *)
C4_HrOverPositiveReadings ==
    called =>
        \A i \in 1..Len(laps) :
            LET H == ClaimHrRefs(i)
                st == lapStats[i]
            IN  H # {} =>
                  /\ st.minHR # None /\ st.maxHR # None /\ st.avgHR # None
                  /\ \E j \in H : records[j].heart_rate[1] = st.minHR[1]
                  /\ \A j \in H : records[j].heart_rate[1] >= st.minHR[1]
                  /\ \E j \in H : records[j].heart_rate[1] = st.maxHR[1]
                  /\ \A j \in H : records[j].heart_rate[1] <= st.maxHR[1]
                  /\ IsRounded(st.avgHR[1], SumHr(H), Cardinality(H))
                  /\ st.minHR[1] > 0
                  /\ st.minHR[1] <= st.avgHR[1]
                  /\ st.avgHR[1] <= st.maxHR[1]

(* a lap whose two matched records read 0 (a dropout) and 121 *)
C4_Witness ==
    /\ called
    /\ Len(laps) >= 1
    /\ Len(records) = 2
    /\ Len(matched[1].lapRecords) = 2
    /\ records[1].heart_rate = Some(0)
    /\ records[2].heart_rate = Some(121)
    /\ lapStats[1].minHR = Some(121)
    /\ lapStats[1].avgHR = Some(121)

(* C5: for a lap with heart-rate-bearing matched records, timeToMinHR is    *)
(* round(t - lap.start_time), t the timestamp of the first matched record   *)
(* in the order of the input record list whose heart_rate equals minHR,     *)
(* and null when that timestamp or lap.start_time is absent.                *)
C5_TimeToMinHRInInputOrder ==
    called =>
        \A i \in 1..Len(laps) :
            LET H == ClaimHrRefs(i)
                M == { j \in H : Some(records[j].heart_rate[1]) = lapStats[i].minHR }
                first == CHOOSE j \in M : \A k \in M : j <= k
                t == lapStats[i].timeToMinHR
            IN  H # {} =>
                  IF records[first].timestamp # None /\ laps[i].start_time # None
                  THEN /\ t # None
                       /\ IsRounded(t[1],
                                    records[first].timestamp[1]
                                      - laps[i].start_time[1],
                                    TicksPerSecond)
                  ELSE t = None

(* C6 as claimed: for a lap without heart-rate-bearing matched records,     *)
(* minHR and timeToMinHR are null and maxHR / avgHR equal the lap           *)
(* summary's max_heart_rate / avg_heart_rate when present, null otherwise.  *)
C6_SummaryFallbackWhenPresent ==
    called =>
        \A i \in 1..Len(laps) :
            ClaimHrRefs(i) = {} =>
                /\ lapStats[i].minHR = None
                /\ lapStats[i].timeToMinHR = None
                /\ lapStats[i].maxHR = laps[i].max_heart_rate
                /\ lapStats[i].avgHR = laps[i].avg_heart_rate

(* C6 as amended: for a lap without heart-rate-bearing matched records,     *)
(* minHR and timeToMinHR are null and maxHR / avgHR equal the lap           *)
(* summary's max_heart_rate / avg_heart_rate when present and non-zero,     *)
(* null otherwise (a summary value of 0 is reported as null).               *)
C6_SummaryFallbackWhenNonZero ==
    called =>
        \A i \in 1..Len(laps) :
            ClaimHrRefs(i) = {} =>
                /\ lapStats[i].minHR = None
                /\ lapStats[i].timeToMinHR = None
                /\ lapStats[i].maxHR =
                      IF laps[i].max_heart_rate \notin {None, Some(0)}
                      THEN laps[i].max_heart_rate ELSE None
                /\ lapStats[i].avgHR =
                      IF laps[i].avg_heart_rate \notin {None, Some(0)}
                      THEN laps[i].avg_heart_rate ELSE None

(* a lap whose only matched record is a dropout, with a summary maximum of  *)
(* 0 and a summary average of 125                                           *)
C6_Witness ==
    /\ called
    /\ Len(laps) >= 1
    /\ Len(matched[1].lapRecords) = 1
    /\ records[matched[1].lapRecords[1]].heart_rate = Some(0)
    /\ laps[1].max_heart_rate = Some(0)
    /\ laps[1].avg_heart_rate = Some(125)
    /\ lapStats[1].minHR = None
    /\ lapStats[1].maxHR = None
    /\ lapStats[1].avgHR = Some(125)

(* C7: avgPace is null iff totalDistance <= 0 or elapsedTime <= 0;          *)
(* otherwise it is elapsedTime / (totalDistance / 1000) seconds per         *)
(* kilometre and strictly positive.                                         *)
C7_AvgPace ==
    called =>
        \A i \in 1..Len(laps) :
            LET st == lapStats[i]
                p == st.avgPace[1]
            IN  /\ st.avgPace = None
                      <=> (st.totalDistance <= 0 \/ st.elapsedTime <= 0)
                /\ st.avgPace # None =>
                      /\ p[1] > 0 /\ p[2] > 0
                      \* p * (totalDistance / 1000) = elapsedTime, in s and m
                      /\ p[1] * st.totalDistance * TicksPerSecond
                            = st.elapsedTime * p[2] * DistUnitsPerMeter * 1000

(* a 30 m lap of 2.5 s: 250/3 s per km; and a lap without distance *)
C7_Witness ==
    /\ called
    /\ Len(laps) = 2
    /\ lapStats[1].totalDistance = 30 * DistUnitsPerMeter
    /\ 2 * lapStats[1].elapsedTime = 5 * TicksPerSecond
    /\ lapStats[1].avgPace = Some(<<250, 3>>)
    /\ lapStats[2].totalDistance = 0
    /\ lapStats[2].elapsedTime > 0
    /\ lapStats[2].avgPace = None

(* C8: elapsedTime is the lap's total_timer_time whenever the lap carries   *)
(* one; timestamp - start_time is used only when total_timer_time is        *)
(* unavailable, and 0 when neither can be computed.                         *)
C8_ElapsedPrefersTimerTime ==
    called =>
        \A i \in 1..Len(laps) :
            lapStats[i].elapsedTime =
                IF laps[i].total_timer_time # None
                THEN laps[i].total_timer_time[1]
                ELSE IF laps[i].timestamp # None /\ laps[i].start_time # None
                     THEN laps[i].timestamp[1] - laps[i].start_time[1]
                     ELSE 0

----------------------------------------------------------------------------
(* Properties of the lap selection UI *)

CheckedSet == { i \in DOMAIN checked : checked[i] }

(* C10: after any sequence of lap-selection events following displayLaps,   *)
(* allLapStats is unchanged and holds one fully computed LapStat per lap,   *)
(* and the rendered rows are exactly the LapStats of the checked laps, in   *)
(* lap order, with the values stored in allLapStats.                        *)
C10_SelectionIsDisplayFilter ==
    /\ [][shown => allLapStats' = allLapStats]_vars
    /\ [](shown =>
            /\ Len(allLapStats) = Len(laps)
            /\ allLapStats = computeLapStats(laps, records)
            /\ Len(statsRows) = Cardinality(CheckedSet)
            /\ { statsRows[k].lapNumber : k \in DOMAIN statsRows } = CheckedSet
            /\ \A k \in DOMAIN statsRows :
                  /\ statsRows[k] = allLapStats[statsRows[k].lapNumber]
                  /\ k > 1 => statsRows[k - 1].lapNumber < statsRows[k].lapNumber
            /\ statsText = IF CheckedSet = {} THEN "empty" ELSE "table")

(* two laps shown, the first one deselected: only lap 2 is rendered *)
C10_Witness ==
    /\ shown
    /\ Len(laps) = 2
    /\ checked = << FALSE, TRUE >>
    /\ Len(statsRows) = 1
    /\ statsRows[1].lapNumber = 2
    /\ Len(allLapStats) = 2

----------------------------------------------------------------------------
(* Properties of the FIT decoder *)

(* the record the loop is about to decode starts with a compressed-       *)
(* timestamp header                                                       *)
AtCompressedHeader ==
    /\ parsePc = "records"
    /\ MoreRecords(parser)
    /\ CanRead(parser.bytes, parser.offset, 1)
    /\ getUint8(parser.bytes, parser.offset) >= 128

IsUint32(x) == x[1] >= 0 /\ x[1] < 134217728

(* (T & ~0x1F) + O, plus 32 when O is below the low five bits of T, over  *)
(* the unsigned value of T                                                *)
ClaimedCompressedTimestamp(T, O) ==
    IF O < T[2] THEN << T[1] + 1, O >> ELSE << T[1], O >>

(* C11: with the accumulator holding an unsigned 32-bit T (T >= 2^31       *)
(* included), a compressed-timestamp header of offset O yields             *)
(* (T & ~0x1F) + O, plus 32 when O < (T & 0x1F); the result is never       *)
(* smaller than T and exceeds it by at most 31.                            *)
C11_CompressedTimestamp ==
    [][ (AtCompressedHeader /\ IsUint32(parser.lastTimestamp)) =>
           LET T == parser.lastTimestamp
               O == getUint8(parser.bytes, parser.offset) % 32
               ts == parser'.lastTimestamp
           IN  /\ ts = ClaimedCompressedTimestamp(T, O)
               /\ NumLeq(T, ts)
               /\ NumLeq(ts, NumAddInt(T, 31)) ]_vars

(* the loop is about to decode a data record that has a definition, and   *)
(* decodes it without raising                                             *)
NextHeader == getUint8(parser.bytes, parser.offset)

NextLocalType ==
    IF NextHeader >= 128 THEN (NextHeader \div 32) % 4 ELSE NextHeader % 16

DecodesDataRecord ==
    /\ parsePc = "records"
    /\ MoreRecords(parser)
    /\ CanRead(parser.bytes, parser.offset, 1)
    /\ (NextHeader >= 128 \/ (NextHeader \div 64) % 2 = 0)
    /\ HasKey(parser.definitions, NextLocalType)
    /\ ~parser'.threw

NextDef == parser.definitions[NextLocalType]

(* the encoded bytes of field k of the record about to be decoded *)
FieldBytes(k) ==
    LET before == SumSeq([j \in 1..(k - 1) |-> NextDef.fields[j].size])
    IN  SubSeq(parser.bytes, parser.offset + 2 + before,
               parser.offset + 1 + before + NextDef.fields[k].size)

FieldHoldsSentinel(k) ==
    /\ NextDef.fields[k].baseType \in SentinelTypes
    /\ NextDef.fields[k].size = SizeOfType(NextDef.fields[k].baseType)
    /\ FieldBytes(k) = SentinelBytes(NextDef.fields[k].baseType, NextDef.littleEndian)

FieldName(k) == FIT_FIELDS[NextDef.globalMsgNum][NextDef.fields[k].num].name

LastOf(seq) == seq[Len(seq)]

(* the message the step has appended (all definitions here are of kind 20) *)
DecodedRecordMsg == LastOf(parser'.messages["record"])

(* C12 as stated: a field whose raw value is its base type's invalid       *)
(* sentinel is absent from the decoded message: its semantic name is not   *)
(* set in the message.                                                     *)
C12_SentinelFieldAbsent ==
    [][ (DecodesDataRecord /\ FieldHoldsSentinel(1)) =>
           ~HasKey(DecodedRecordMsg, FieldName(1)) ]_vars

(* C12, amended: such a field sets nothing in the message. Its name is     *)
(* absent unless another field of the record carries the same name (then   *)
(* it holds that field's value) or the name is timestamp and the record    *)
(* has a compressed-timestamp header (then it holds the compressed value). *)
C12_SentinelFieldSetsNothing ==
    [][ (DecodesDataRecord /\ FieldHoldsSentinel(1)) =>
           LET msg == DecodedRecordMsg
               name == FieldName(1)
           IN  IF name = FieldName(2)
               THEN msg[name] = Unscaled(NumOfInt(FieldBytes(2)[1]))
               ELSE IF name = "timestamp" /\ NextHeader >= 128
               THEN msg[name] = Unscaled(CompressedTimestamp(parser.lastTimestamp,
                                                             NextHeader % 32))
               ELSE ~HasKey(msg, name) ]_vars

C12_Witness ==
    /\ parsePc = "returned"
    /\ fitInput.recs = << SentinelDef(131, 2, FALSE), DataRecord(0, << 127, 255, 150 >>) >>
    /\ parser.messages["record"] = << SetKey(EmptyObject, "heart_rate", Unscaled(NumOfInt(150))) >>

(* the offset at which record i of the described buffer starts, and what  *)
(* a record of its kind occupies: a data record its header byte, its      *)
(* fields and its developer fields; a definition record five fixed bytes  *)
(* after the header, three per field, and a count and three per           *)
(* developer field when it declares any                                   *)
DeclaredLength(i) ==
    LET r == fitInput.described[i]
    IN  IF r.kind = "data"
        THEN LET d == fitInput.described[DefinitionFor(fitInput.described, i)]
             IN  1 + SumSeq([k \in 1..Len(d.fields) |-> d.fields[k].size])
                   + SumSeq([k \in 1..Len(d.devFields) |-> d.devFields[k].size])
        ELSE 6 + 3 * Len(r.fields)
               + (IF r.devFields = << >> THEN 0 ELSE 1 + 3 * Len(r.devFields))

DeclaredStart(i) ==
    fitInput.headerSize + SumSeq([j \in 1..(i - 1) |-> DeclaredLength(j)])

(* C13: in a well-formed stream every data record advances the cursor by   *)
(* 1 + its field sizes + its developer field sizes, every definition       *)
(* record by its encoded length, and when parse returns the cursor is      *)
(* header length + payload length.                                         *)
C13_CursorAdvance ==
    [][ /\ (parsePc = "records" /\ parsePc' = "records") =>
              \E i \in 1..Len(fitInput.described) :
                  /\ parser.offset = DeclaredStart(i)
                  /\ parser'.offset = parser.offset + DeclaredLength(i)
        /\ parsePc' = "returned" =>
              /\ ~parser'.threw
              /\ parser'.offset = fitInput.headerSize + fitInput.declared ]_vars

C13_Witness ==
    /\ parsePc = "returned"
    /\ fitInput.headerSize = 14
    /\ Len(fitInput.described) = 3
    /\ fitInput.described[2].kind = "definition"
    /\ fitInput.described[2].devFields # << >>
    /\ fitInput.described[3] = DataOf(1, TRUE, 21)
    /\ parser.offset = 14 + 6 + 3 + 19 + 15
    /\ Len(parser.messages["lap"]) = 1

(* the buffer made of the header and of the first n described records only *)
PrefixBuffer(n) ==
    FitBytes(Described(SubSeq(fitInput.described, 1, n), fitInput.headerSize,
                       FitSignature, 0, 0))

(* buffer bytes 8..11 are ".FIT" *)
HasSignature ==
    /\ Len(parser.bytes) >= 12
    /\ SubSeq(parser.bytes, 9, 12) = << 46, 70, 73, 84 >>

(* C14: once the header is validated parse never fails; on the first       *)
(* decode error (a read past the end of the buffer, or a data record       *)
(* without a definition) it stops and returns exactly the messages of the  *)
(* records decoded before the failing record, which contributes none.      *)
C14_StopsAtFirstError ==
    [][ /\ parsePc = "records" => parsePc' \in {"records", "returned"}
        /\ (parsePc = "records" /\ parser'.threw) =>
              /\ parsePc' = "returned"
              /\ parser'.messages = parser.messages
              /\ \E i \in 1..(Len(fitInput.described) + 1) :
                    /\ parser.offset = fitInput.headerSize
                          + Len(Concat(SubSeq(fitInput.recs, 1, i - 1)))
                    /\ parser'.messages = Parse(PrefixBuffer(i - 1)).messages
        /\ parsePc = "returned" => UNCHANGED vars ]_vars

C14_Witness ==
    /\ parsePc = "returned"
    /\ parser.threw
    /\ fitInput.cut = 5
    /\ Len(fitInput.described) = 3
    /\ fitInput.described[3] = DataOf(0, FALSE, 21)
    /\ DOMAIN parser.messages = {"record"}
    /\ Len(parser.messages["record"]) = 1

(* C15 as stated: only data records of kind lap (19) or record (20) are    *)
(* retained in the output; records of any other kind do not appear in it.  *)
C15_OnlyLapAndRecordRetained ==
    DOMAIN parser.messages \subseteq {"lap", "record"}

RetainedKinds == {0, 18, 19, 20, 21, 23, 34}

KindNames ==
    << "file_id", "session", "lap", "record", "event", "device_info", "activity" >>

KindName(g) ==
    KindNames[CHOOSE k \in 1..7 : << 0, 18, 19, 20, 21, 23, 34 >>[k] = g]

SequenceOf(messages, name) == IF HasKey(messages, name) THEN messages[name] ELSE << >>

(* C15, amended: a data record is retained, appended to the sequence of    *)
(* its kind, exactly when its kind is one of file_id (0), session (18),    *)
(* lap (19), record (20), event (21), device_info (23), activity (34);     *)
(* a record of any other kind is decoded but leaves the output unchanged.  *)
C15_NamedKindsRetained ==
    [][ DecodesDataRecord =>
          /\ parser'.offset = parser.offset + 5
          /\ DOMAIN parser'.messages \subseteq Range(KindNames)
          /\ IF NextDef.globalMsgNum \in RetainedKinds
             THEN \A name \in Range(KindNames) :
                      IF name = KindName(NextDef.globalMsgNum)
                      THEN /\ Len(SequenceOf(parser'.messages, name))
                                 = Len(SequenceOf(parser.messages, name)) + 1
                           /\ SubSeq(parser'.messages[name], 1,
                                     Len(SequenceOf(parser.messages, name)))
                                 = SequenceOf(parser.messages, name)
                      ELSE SequenceOf(parser'.messages, name)
                              = SequenceOf(parser.messages, name)
             ELSE parser'.messages = parser.messages ]_vars

C15_Witness ==
    /\ parsePc = "returned"
    /\ Len(fitInput.described) = 3
    /\ fitInput.described[1].kind = "definition"
    /\ fitInput.described[1].globalMsgNum = 49
    /\ fitInput.described[2].kind = "data"
    /\ fitInput.described[3].kind = "data"
    /\ parser.offset = 12 + 9 + 5 + 5
    /\ parser.messages = EmptyObject

(* C16: parse on an input whose four bytes at offset 8 are not ".FIT"      *)
(* fails with an error before any record is decoded and returns no         *)
(* messages.                                                               *)
C16_BadSignatureFails ==
    (parsePc # "new" /\ ~HasSignature) =>
        /\ parsePc = "failed"
        /\ parser.threw
        /\ parser.offset = 0
        /\ parser.definitions = EmptyObject
        /\ parser.messages = EmptyObject

C16_Witness ==
    /\ parsePc = "failed"
    /\ Len(parser.bytes) > 12
    /\ SubSeq(parser.bytes, 9, 12) = << 46, 102, 105, 116 >>
    /\ Len(fitInput.described) = 2

(* the described record the loop is about to decode, 0 if the cursor is   *)
(* at no record start                                                     *)
RecordAtCursor ==
    LET is == { i \in 1..Len(fitInput.described) : parser.offset = DeclaredStart(i) }
    IN  IF is = {} THEN 0 ELSE CHOOSE i \in is : TRUE

(* the layout a described definition record declares *)
LayoutOf(r) ==
    [ globalMsgNum |-> r.globalMsgNum,
      littleEndian |-> r.littleEndian,
      fields |-> r.fields,
      devFields |-> [k \in 1..Len(r.devFields) |->
                       [ num |-> r.devFields[k].num, size |-> r.devFields[k].size,
                         devIdx |-> 0 ]] ]

(* the names a data record filled with one byte value sets under the      *)
(* definition d: those of the uint8 and uint32 fields of matching size    *)
(* that the profile names, none when the fill is the invalid value 255,   *)
(* and timestamp for a compressed-timestamp header                        *)
NamesUnder(d, r) ==
    { Val(ProfileOf(d.globalMsgNum, d.fields[k].num)).name :
        k \in { j \in 1..Len(d.fields) :
                  /\ IsSome(ProfileOf(d.globalMsgNum, d.fields[j].num))
                  /\ << d.fields[j].baseType, d.fields[j].size >> \in { << 2, 1 >>, << 134, 4 >> }
                  /\ r.fill # 255 } }
    \cup (IF r.compressed THEN {"timestamp"} ELSE {})

(* C22: every data record is decoded with the most recent definition       *)
(* record of its local type that precedes it in the stream; a definition   *)
(* record replaces the layout of its own local type and leaves the layouts *)
(* of all other local types unchanged.                                     *)
C22_LatestDefinitionApplies ==
    [][ (parsePc = "records" /\ parsePc' = "records") =>
          LET i == RecordAtCursor
              r == fitInput.described[i]
          IN  /\ i # 0
              /\ IF r.kind = "definition"
                 THEN /\ DOMAIN parser'.definitions
                            = DOMAIN parser.definitions \cup {r.localType}
                      /\ \A t \in DOMAIN parser'.definitions :
                            parser'.definitions[t] =
                               IF t = r.localType THEN LayoutOf(r)
                               ELSE parser.definitions[t]
                      /\ parser'.messages = parser.messages
                 ELSE LET d == fitInput.described[DefinitionFor(fitInput.described, i)]
                          name == KindName(d.globalMsgNum)
                      IN  /\ parser'.definitions = parser.definitions
                          /\ parser.definitions[r.localType] = LayoutOf(d)
                          /\ Len(SequenceOf(parser'.messages, name))
                                = Len(SequenceOf(parser.messages, name)) + 1
                          /\ DOMAIN LastOf(parser'.messages[name]) = NamesUnder(d, r)
                          /\ parser'.offset = parser.offset + 1 + PayloadLength(d) ]_vars

C22_Witness ==
    /\ parsePc = "returned"
    /\ Len(fitInput.described) = 3
    /\ fitInput.described[1].kind = "definition"
    /\ fitInput.described[1].localType = 0
    /\ Len(fitInput.described[1].fields) = 2
    /\ fitInput.described[2].kind = "definition"
    /\ fitInput.described[2].localType = 0
    /\ Len(fitInput.described[2].fields) = 1
    /\ fitInput.described[3] = DataOf(0, FALSE, 21)
    /\ DOMAIN parser.definitions = {0}
    /\ parser.messages["record"]
          = << SetKey(EmptyObject, "heart_rate", Unscaled(NumOfInt(21))) >>

(* the unsigned value of four little-endian bytes *)
U32LE(b) ==
    << b[1] \div 32 + 8 * b[2] + 2048 * b[3] + 524288 * b[4], b[1] % 32 >>

(* the fields of the record about to be decoded that are a valid          *)
(* timestamp: field id 253, uint32, not the invalid value                 *)
TimestampFields ==
    { k \in 1..Len(NextDef.fields) :
        /\ NextDef.fields[k].num = 253
        /\ NextDef.fields[k].baseType = 134
        /\ NextDef.fields[k].size = 4
        /\ NextDef.littleEndian
        /\ FieldBytes(k) # << 255, 255, 255, 255 >> }

(* the records that end before the cursor, and the timestamp carried by   *)
(* the most recent data record among them (every data record of these     *)
(* buffers carries one in its first field), 0 if there is none            *)
RecordsBeforeCursor ==
    LET ns == { n \in 0..Len(fitInput.recs) :
                  parser.offset = fitInput.headerSize
                                    + Len(Concat(SubSeq(fitInput.recs, 1, n))) }
    IN  CHOOSE n \in ns : TRUE

LastBorneTimestamp ==
    LET js == { j \in 1..RecordsBeforeCursor : fitInput.described[j].kind = "data" }
    IN  IF js = {} THEN NumOfInt(0)
        ELSE U32LE(SubSeq(fitInput.recs[CHOOSE j \in js : \A k \in js : k <= j], 2, 5))

(* C23: the last-timestamp accumulator is updated whenever a decoded data  *)
(* record carries a valid timestamp field (field id 253), whatever the     *)
(* record's message kind, kinds other than lap and record included; so a   *)
(* compressed-timestamp record is resolved against the timestamp of the    *)
(* most recent timestamp-bearing record of any kind that precedes it.      *)
C23_AccumulatorTracksAnyKind ==
    [][ DecodesDataRecord =>
          /\ \A k \in TimestampFields :
                parser'.lastTimestamp = U32LE(FieldBytes(k))
          /\ NextHeader >= 128 => parser.lastTimestamp = LastBorneTimestamp ]_vars

(* the message the step has decoded, when its kind is retained *)
Retained == NextDef.globalMsgNum \in RetainedKinds

DecodedMsg == LastOf(parser'.messages[KindName(NextDef.globalMsgNum)])

(* C24: a data record with a compressed-timestamp header gets the          *)
(* timestamp computed for that header if and only if it has no valid       *)
(* explicit timestamp field; when it has one, the explicit value is kept   *)
(* in the message and becomes the accumulator value. A plain data record   *)
(* without a timestamp field has no timestamp and leaves the accumulator   *)
(* unchanged.                                                              *)
C24_InheritsCompressedTimestamp ==
    [][ DecodesDataRecord =>
          LET ts == CompressedTimestamp(parser.lastTimestamp, NextHeader % 32)
          IN  /\ (NextHeader >= 128 /\ TimestampFields = {}) =>
                    /\ parser'.lastTimestamp = ts
                    /\ Retained => DecodedMsg["timestamp"] = Unscaled(ts)
              /\ \A k \in TimestampFields :
                    /\ parser'.lastTimestamp = U32LE(FieldBytes(k))
                    /\ Retained => DecodedMsg["timestamp"] = Unscaled(U32LE(FieldBytes(k)))
              /\ (NextHeader < 128 /\ TimestampFields = {}) =>
                    /\ parser'.lastTimestamp = parser.lastTimestamp
                    /\ Retained => ~HasKey(DecodedMsg, "timestamp") ]_vars

----------------------------------------------------------------------------
(* Properties of extractFitFromZip *)

(* C17: on a valid single-entry archive whose entry is a stored .fit file, *)
(* extractFitFromZip returns bytes identical to the original payload,      *)
(* whatever the lengths of the name, the extra fields and the archive      *)
(* comment.                                                                *)
C17_StoredRoundTrip ==
    (zipResult # None /\ Len(zipInput.entries) = 1
        /\ zipInput.entries[1].method = 0) =>
        /\ Val(zipResult).ok
        /\ Val(zipResult).value = zipInput.entries[1].payload

(* an end-of-central-directory signature lies within the last 65557 bytes *)
EocdInWindow ==
    \E i \in 0..(Len(zipBytes) - 22) :
        /\ i >= Len(zipBytes) - 65557
        /\ SubSeq(zipBytes, i + 1, i + 4) = << 80, 75, 5, 6 >>

(* what the directory walk meets: the described entries in order, then    *)
(* the end record when more entries are announced than there are          *)
IsFitEntry(e) == e.name \in FitNames \cup {MixedCaseFitName}

Walked == Min(zipInput.declaredEntries, Len(zipInput.entries))

FirstFit ==
    LET ks == { k \in 1..Walked : IsFitEntry(zipInput.entries[k]) }
    IN  IF ks = {} THEN 0 ELSE CHOOSE k \in ks : \A j \in ks : k <= j

(* the index of the first walked entry with a wrong signature, 0 if none; *)
(* the walk ends at the first .fit entry                                  *)
FirstBadSignature ==
    LET last == IF FirstFit = 0 THEN Walked ELSE FirstFit
        ks == { k \in 1..last : zipInput.entries[k].sig # << 80, 75, 1, 2 >> }
    IN  IF ks # {} THEN CHOOSE k \in ks : \A j \in ks : k <= j
        ELSE IF FirstFit = 0 /\ zipInput.declaredEntries > Len(zipInput.entries)
        THEN Len(zipInput.entries) + 1
        ELSE 0

(* C18: extractFitFromZip returns a payload only when an end signature is  *)
(* found within the last 65557 bytes, every entry walked up to and         *)
(* including the first .fit entry has a valid signature and that entry's   *)
(* method is 0 or 8; otherwise it fails: no end marker, a walked entry     *)
(* with a wrong signature, another method, or no matching name among       *)
(* exactly the announced number of entries.                                *)
C18_ReturnsOnlyFromValidArchive ==
    zipResult # None =>
        LET r == Val(zipResult)
        IN  /\ r.ok =>
                 /\ EocdInWindow
                 /\ FirstFit # 0
                 /\ FirstBadSignature = 0
                 /\ zipInput.entries[FirstFit].method \in {0, 8}
                 /\ r.value = zipInput.entries[FirstFit].payload
            /\ ~EocdInWindow => r = Thrown("Invalid ZIP file")
            /\ (EocdInWindow /\ FirstBadSignature # 0) =>
                 r = Thrown("Invalid central directory")
            /\ (EocdInWindow /\ FirstBadSignature = 0 /\ FirstFit # 0
                  /\ zipInput.entries[FirstFit].method \notin {0, 8}) =>
                 r = Thrown("Unsupported compression method")
            /\ (EocdInWindow /\ FirstBadSignature = 0 /\ FirstFit = 0) =>
                 r = Thrown("No .fit file found in ZIP")

C18_Witness ==
    /\ zipResult # None
    /\ Val(zipResult).ok
    /\ Len(zipInput.entries) = 2
    /\ ~IsFitEntry(zipInput.entries[1])
    /\ zipInput.entries[2].method = 8
    /\ zipInput.trailing # << >>
    /\ Val(zipResult).value = << 14, 16, 7 >>

----------------------------------------------------------------------------
(* Properties of parseJsonActivity *)

LacksDetails == ~jsonInput.parsable \/ jsonInput.isNull \/ jsonInput.details = None

LacksSplits == ~jsonInput.parsable \/ jsonInput.isNull \/ jsonInput.splits = None

(* C19 as stated: parseJsonActivity fails whenever the text is unparsable  *)
(* or the details object or the splits structure is missing; it never      *)
(* returns an Activity from a document that lacks one of them.             *)
C19_FailsWhenPartMissing ==
    (jsonResult # None /\ (LacksDetails \/ LacksSplits)) => ~Val(jsonResult).ok

(* C19, amended: it fails whenever the text is unparsable, the document is *)
(* null or the details object is missing, and when splits is an object     *)
(* without lapDTOs; a document that has details but lacks the splits       *)
(* structure does not fail and yields an Activity with no laps.            *)
C19_FailsWhenDetailsMissing ==
    jsonResult # None =>
        /\ LacksDetails => ~Val(jsonResult).ok
        /\ (~LacksDetails /\ LacksSplits) =>
              /\ Val(jsonResult).ok
              /\ Val(jsonResult).value.lap = << >>
        /\ (~LacksDetails /\ ~LacksSplits /\ ~Val(jsonInput.splits).isArray
              /\ Val(jsonInput.splits).lapDTOs = None) => ~Val(jsonResult).ok

C19_Witness ==
    /\ jsonResult # None
    /\ jsonInput.parsable
    /\ ~jsonInput.isNull
    /\ jsonInput.splits = None
    /\ jsonInput.details # None
    /\ Val(jsonResult).ok
    /\ Len(Val(jsonResult).value.record) = 1

(* the rows the adapter reads, and the columns the descriptor map gives   *)
(* to the timestamp (the last descriptor of an index decides its key)     *)
SourceRows ==
    LET d == Val(jsonInput.details)
    IN  IF d.activityDetailMetrics # None THEN Val(d.activityDetailMetrics)
        ELSE IF d.geoPolylineDTO # None THEN Val(Val(d.geoPolylineDTO).metrics)
        ELSE << >>

SourceDescriptors ==
    IF Val(jsonInput.details).metricDescriptors = None THEN << >>
    ELSE Val(Val(jsonInput.details).metricDescriptors)

TimestampColumns ==
    { c \in 0..2 :
        \E k \in 1..Len(SourceDescriptors) :
            /\ SourceDescriptors[k] = Descriptor(c, "directTimestamp")
            /\ \A j \in (k + 1)..Len(SourceDescriptors) :
                  SourceDescriptors[j].metricsIndex # c }

(* the millisecond values a row holds in the timestamp columns *)
SourceMillis(row) ==
    IF row.metrics = None THEN {}
    ELSE { Val(row.metrics)[c + 1][1] :
             c \in { x \in TimestampColumns :
                       x < Len(Val(row.metrics)) /\ Val(row.metrics)[x + 1] # None } }

HasSourceMillis(row) == SourceMillis(row) # {}

(* C20: every record produced by parseJsonActivity has a present timestamp *)
(* equal to the source millisecond value divided by 1000; rows for which   *)
(* no timestamp can be resolved are dropped, and the records keep the      *)
(* order of their source rows.                                             *)
C20_RecordsCarrySourceTimestamp ==
    (jsonResult # None /\ Val(jsonResult).ok) =>
        LET produced == Val(jsonResult).value.record
            kept == SelectSeq(SourceRows, HasSourceMillis)
        IN  /\ Len(produced) = Len(kept)
            /\ \A k \in 1..Len(produced) :
                  /\ HasKey(produced[k], "timestamp")
                  /\ produced[k]["timestamp"] # None
                  /\ \E ms \in SourceMillis(kept[k]) :
                        Val(produced[k]["timestamp"])[1] * 1000
                            = ms * Val(produced[k]["timestamp"])[2]

----------------------------------------------------------------------------
(* Properties of formatPace *)

DigitValue(c) ==
    CHOOSE v \in 0..9 : << "0", "1", "2", "3", "4", "5", "6", "7", "8", "9" >>[v + 1] = c

IsDigit(c) == c \in { "0", "1", "2", "3", "4", "5", "6", "7", "8", "9" }

(* the number a sequence of decimal digits denotes *)
RECURSIVE DecimalValue(_)
DecimalValue(digits) ==
    IF digits = << >> THEN 0
    ELSE 10 * DecimalValue(SubSeq(digits, 1, Len(digits) - 1))
           + DigitValue(digits[Len(digits)])

(* the text reads m:ss, with ss two digits in 00..59 and m*60 + ss within  *)
(* half a second of n/d seconds                                           *)
ReadsAsRounded(text, n, d) ==
    /\ Len(text) >= 4
    /\ text[Len(text) - 2] = ":"
    /\ \A k \in 1..Len(text) : k # Len(text) - 2 => IsDigit(text[k])
    /\ LET m == DecimalValue(SubSeq(text, 1, Len(text) - 3))
           ss == DecimalValue(SubSeq(text, Len(text) - 1, Len(text)))
       IN  /\ ss <= 59
           /\ 2 * (60 * m + ss) * d - 2 * n <= d
           /\ 2 * n - 2 * (60 * m + ss) * d <= d

(* C28: for every positive finite number of seconds x, non-integers such   *)
(* as 359.6 included, formatPace(x) renders m:ss with the seconds          *)
(* component in 00..59 and m*60 + ss equal to x rounded to the nearest     *)
(* second; for null, non-finite or non-positive x it renders --:--.        *)
C28_PaceText ==
    paceText # None =>
        IF paceInput.kind = "number" /\ paceInput.value[1] > 0
        THEN ReadsAsRounded(Val(paceText), paceInput.value[1], paceInput.value[2])
        ELSE Val(paceText) = << "-", "-", ":", "-", "-" >>

----------------------------------------------------------------------------------------------------------------------------------------
(* Properties of the page script and of the content script's calls *)

(* the calls of garminFetch a step adds to the run for requestId *)
FetchedBefore(requestId) ==
    IF requestId \in DOMAIN pageTasks THEN pageTasks[requestId].fetched ELSE << >>

NewlyFetched(requestId) ==
    SubSeq(pageTasks'[requestId].fetched, Len(FetchedBefore(requestId)) + 1,
           Len(pageTasks'[requestId].fetched))

(* the message a step posts to the window, if it posts one *)
Posts(msg) ==
    /\ Len(posted') = Len(posted) + 1
    /\ posted' = Append(posted, msg)

TokenFailure(requestId) == FetchFailure(requestId, "Could not capture CSRF token")

(* C27: a run of the page script's listener waits while no token is       *)
(* captured, for at most TokenRounds timers; every call of garminFetch     *)
(* is made with a token captured and carries the token captured at that    *)
(* moment; the failure for a missing token is posted only when the last    *)
(* of the TokenRounds timers fires without a token, by a run that has      *)
(* made and makes no network request.                                      *)
C27_FetchesOnlyWithToken ==
    /\ [](\A requestId \in DOMAIN pageTasks :
             LET task == pageTasks[requestId]
             IN  /\ task.i < TokenRounds
                 /\ task.pc = "token" => task.fetched = << >>
                 /\ \A k \in 1..Len(task.fetched) : task.fetched[k].token # None)
    /\ [][\A requestId \in DOMAIN pageTasks' :
             /\ \A k \in 1..Len(NewlyFetched(requestId)) :
                   /\ csrfToken # None
                   /\ NewlyFetched(requestId)[k].token = csrfToken
             /\ Posts(TokenFailure(requestId))
                   => /\ csrfToken = None
                      /\ requestId \in DOMAIN pageTasks
                      /\ pageTasks[requestId].pc = "token"
                      /\ pageTasks[requestId].i = TokenRounds - 1
                      /\ pageTasks'[requestId].fetched = << >>
                      /\ pageTasks'[requestId].pc = "done"
             /\ (requestId \in DOMAIN pageTasks /\ pageTasks[requestId].pc = "token"
                    /\ pageTasks'[requestId].pc = "done")
                   => Posts(TokenFailure(requestId))]_vars

(* one run has given up after its last timer without a request, a later   *)
(* one has downloaded with the second token                                *)
C27_Witness ==
    /\ DOMAIN pageTasks = {1, 2}
    /\ pageTasks[1].pc = "done"
    /\ pageTasks[1].fetched = << >>
    /\ pageTasks[2].fetched = << [ path |-> "download", token |-> Some("t2") ] >>

(* the paths a run of the listener has requested, in order *)
Paths(task) == [ k \in 1..Len(task.fetched) |-> task.fetched[k].path ]

(* the response a step posts to the window, if it posts one *)
PostsResponse ==
    /\ Len(posted') = Len(posted) + 1
    /\ posted'[Len(posted')].type = "GLA_FETCH_RESPONSE"

PostedResponse == posted'[Len(posted')]

(* C21: a run of the page script's listener requests the download first;  *)
(* it requests details and splits, together, only at the moment the        *)
(* download's response arrives and is not OK or is HTML; it posts a 'json' *)
(* response only with both API responses OK, after such a download         *)
(* response; and a download whose response is OK and not HTML is followed  *)
(* by no API request and, once its body has been read, by a 'binary'       *)
(* response (a failure response if reading the body fails).                *)
C21_FitFirstJsonFallback ==
    /\ [](\A requestId \in DOMAIN pageTasks :
             LET task == pageTasks[requestId]
             IN  /\ Paths(task) \in { << >>, << "download" >>,
                                      << "download", "details", "splits" >> }
                 /\ Len(task.fetched) = 3 => task.fitResp \in {"html", "notOk"}
                 /\ task.fitResp = "ok" => Paths(task) = << "download" >>
                 /\ task.pc \in {"json", "jsonBody"} => Len(task.fetched) = 3)
    /\ [][\A requestId \in DOMAIN pageTasks' :
             LET task == pageTasks'[requestId]
                 before == FetchedBefore(requestId)
             IN  /\ Len(task.fetched) = 3 /\ Len(before) < 3
                       => /\ Len(before) = 1
                          /\ pageTasks[requestId].pc = "fit"
                          /\ task.fitResp \in {"html", "notOk"}
                 /\ (PostsResponse /\ PostedResponse.requestId = requestId
                        /\ PostedResponse.success)
                       => IF PostedResponse.format = "json"
                          THEN /\ task.dResp = "ok"
                               /\ task.sResp = "ok"
                               /\ task.fitResp \in {"html", "notOk"}
                          ELSE /\ PostedResponse.format = "binary"
                               /\ task.fitResp = "ok"
                               /\ Paths(task) = << "download" >>
                 /\ (requestId \in DOMAIN pageTasks /\ pageTasks[requestId].pc = "body"
                        /\ task.pc # "body")
                       => /\ PostsResponse
                          /\ PostedResponse.requestId = requestId
                          /\ PostedResponse.success => PostedResponse.format = "binary"
                          /\ ~PostedResponse.success
                                => PostedResponse = FetchFailure(requestId, "fetch failed")
                          /\ Paths(task) = << "download" >>]_vars

(* one run has fallen back to the API after an HTML download response and *)
(* its 'json' response waits in the window's queue behind the 'binary'     *)
(* response of a run whose download succeeded                              *)
C21_Witness ==
    /\ DOMAIN pageTasks = {1, 2}
    /\ pageTasks[1].fitResp = "ok"
    /\ pageTasks[2].fitResp = "html"
    /\ Len(pageTasks[2].fetched) = 3
    /\ Len(posted) = 2
    /\ posted[1] = FetchResponse(1, "binary", Data("a", "fit"))
    /\ posted[2] = FetchResponse(2, "json", Data("a", "json"))

(* C26: with timers firing, network calls settling and posted messages    *)
(* dispatched, every request posted by fetchActivityData is answered:      *)
(* the run of the page script's listener for it posts one response with    *)
(* its requestId, never a second, and the promise settles. A promise       *)
(* settles at most once, only when the message dispatched is a response    *)
(* with its own requestId, its handler is installed from the call until    *)
(* then and removed in that step; the handlers of other calls stay.        *)
C26_OneResponsePerRequest ==
    /\ [](/\ \A requestId \in DOMAIN pageTasks : pageTasks[requestId].responses <= 1
          /\ \A k \in DOMAIN analyzers :
                /\ analyzers[k].settled <= 1
                /\ k \in listeners <=> analyzers[k].pc = "fetching"
                /\ analyzers[k].pc = "fetching" => analyzers[k].settled = 0)
    /\ [][\A k \in DOMAIN analyzers :
             analyzers'[k].settled # analyzers[k].settled
                => /\ posted # << >>
                   /\ Head(posted).type = "GLA_FETCH_RESPONSE"
                   /\ Head(posted).requestId = k
                   /\ pageTasks[k].responses = 1
                   /\ k \in listeners
                   /\ listeners' = listeners \ {k}]_vars
    /\ \A k \in 1..MaxCalls :
          (k \in listeners) ~> (/\ k \in DOMAIN pageTasks
                                /\ pageTasks[k].responses = 1
                                /\ analyzers[k].settled = 1
                                /\ k \notin listeners)

(* two requests in flight at once: the second call's promise has settled  *)
(* on its response while the first call's response is still to be          *)
(* dispatched                                                              *)
C26_Witness ==
    /\ listeners = {1}
    /\ Len(analyzers) = 2
    /\ analyzers[1].settled = 0
    /\ analyzers[2].settled = 1
    /\ pageTasks[2].responses = 1
    /\ Len(posted) = 1
    /\ posted[1].type = "GLA_FETCH_RESPONSE"
    /\ posted[1].requestId = 1

(* C25: whenever fitData is not null it was fetched for the activity in   *)
(* currentActivityId, and the lap stats a panel shows were computed from   *)
(* data of the activity in currentActivityId.                              *)
C25_CacheIsOfCurrentActivity ==
    /\ fitData # None
          => /\ currentActivityId # None
             /\ Val(fitData).activity = Val(currentActivityId)
    /\ (panel # None /\ Val(panel).statsOf # None)
          => Val(panel).statsOf = currentActivityId

====
